---------------------------- MODULE Spec2Model ----------------------------
(***************************************************************************)
(* ACUTE checkpoint offload pipeline (src/ACUTE/ACUTE.py).                 *)
(*                                                                         *)
(* Trainer side, one per shard leader r: the training thread calling       *)
(* TRAIN.save, the Copier worker and the Sender worker.  Remote sink: the  *)
(* Master loop of REMOTE.start, one Receiver per shard and the Flusher.    *)
(* Every thread is a program counter plus its locals; one action is one    *)
(* step of a thread between two accesses to shared state.  A `with lock:`  *)
(* block is one action (the block is atomic with respect to the other      *)
(* blocks under the same lock, and nothing else touches what it writes).   *)
(* A busy-wait or a blocking call is the guard of the step that follows.   *)
(***************************************************************************)
EXTENDS Integers, Sequences, FiniteSets, TLC

(* ------------------------------ bounds --------------------------------- *)
MaxSaveCount == 2
MaxRemoteSaveCount == 3
MaxShardSize == 2
MaxBufferSize == 2
MaxClock == 2
MaxLen == 8
MaxRanks == 4
MaxWorldSize == 4
MaxHosts == 2
MaxEpochs == 10
MaxPeriod == 3
MaxPipeShards == 1
MaxApiSaves == 1
MaxOthers == 2

(* ------------------------------ state ---------------------------------- *)
VARIABLES
    \* configuration handed to every node by init_ACUTE
    save_count, shard_size, remote_buffer_size,
    file_name_include_datetime, file_save_in_dictionary,
    \* TRAIN, per shard rank
    is_running, t_pc, t_saves,
    \* TRAIN.__CopierClass, per shard rank
    copy_completed, is_copy_complete_attr, buffer, c_pc, c_iter, c_dump,
    \* TRAIN.__SenderClass, per shard rank
    s_pc, s_iter, s_queue, s_data,
    \* MPI point-to-point messages in flight to the remote sink, per source
    channel,
    \* REMOTE
    r_running, dirty_bits, remote_buffer, remote_buffer_index,
    m_pc, m_iter, m_target, m_i,
    \* REMOTE.__ReceiverClass, per shard rank
    start_event, end_event, rc_pc, rc_iter, rc_index, rc_data,
    \* REMOTE.__FlusherClass
    f_pc, f_iter, f_queue, f_index, f_data,
    \* the file system of the remote sink, the clock, the writes performed
    files, clock, writes,
    \* compute_shard exercised on its own (SpecShard)
    cs_dump, cs_size, cs_rank, cs_out,
    \* the job as mpirun launches it: MPI world size, host of every world rank
    mpi_size, host,
    \* the arguments of init_ACUTE (args updated with the overrides)
    overrides_valid, snapshot_path, snapshot_epoch, starting_epoch, total_epochs,
    save_period, args_shard_size, train_node_auto_start,
    \* init_ACUTE, per world rank
    i_pc, gathered, sharding_rank_list, i_save_count, environ, node, node_running,
    node_threads, i_result,
    \* calculate_save_count exercised on its own (SpecSaveCount), per world rank
    sc_out,
    \* TRAIN nodes that hold no shard (shard rank -1, or shard_size and above)
    o_shard_rank, o_running, o_pc, o_saves, o_buffer, o_copy_completed, o_attr,
    o_threads, o_queue,
    \* a second caller of REMOTE.start, and the process of the remote sink
    r_call, r_process,
    \* history: the chunks handed to Sender.enqueue and the messages handed to
    \* MPI.send, per shard rank, in order
    enqueued, sent

cfgvars == <<save_count, shard_size, remote_buffer_size,
             file_name_include_datetime, file_save_in_dictionary>>
trainvars == <<is_running, t_pc, t_saves>>
copiervars == <<copy_completed, is_copy_complete_attr, buffer, c_pc, c_iter, c_dump>>
sendervars == <<s_pc, s_iter, s_queue, s_data>>
mastervars == <<r_running, dirty_bits, remote_buffer_index, m_pc, m_iter, m_target, m_i>>
eventvars == <<start_event, end_event>>
receivervars == <<rc_pc, rc_iter, rc_index, rc_data>>
flushervars == <<f_pc, f_iter, f_queue, f_index, f_data>>
fsvars == <<files, clock, writes>>
shardvars == <<cs_dump, cs_size, cs_rank, cs_out>>
jobvars == <<mpi_size, host>>
argvars == <<overrides_valid, snapshot_path, snapshot_epoch, starting_epoch, total_epochs,
             save_period, args_shard_size, train_node_auto_start>>
procvars == <<i_pc, gathered, sharding_rank_list, i_save_count, environ, node,
              node_running, node_threads, i_result>>
bootvars == <<jobvars, argvars, procvars, sc_out>>
othervars == <<o_shard_rank, o_running, o_pc, o_saves, o_buffer, o_copy_completed, o_attr,
               o_threads, o_queue>>
apivars == <<othervars, r_call, r_process>>
histvars == <<enqueued, sent>>

vars == <<cfgvars, trainvars, copiervars, sendervars, channel, mastervars,
          remote_buffer, eventvars, receivervars, flushervars, fsvars, shardvars, apivars, histvars, bootvars>>

Shards == 0 .. (shard_size - 1)
Slots == 0 .. (remote_buffer_size - 1)

(* ------------------------- values and helpers -------------------------- *)
\* Python's None in the Copier's handoff slot
None == 0
\* the integer 0 that REMOTE.__init__ puts in every cell of the remote buffer
Placeholder == <<-1>>
ModelName == "model"

\* The user's snapshot of cycle k is the opaque value k.  torch.save turns it
\* into a byte sequence that differs from snapshot to snapshot in content and
\* in length: k bytes, the i-th one 16*k + i.
Serialize(obj) == [i \in 1 .. obj |-> 16 * obj + i]

\* the snapshot a byte of a serialized snapshot comes from
SnapshotOf(byte) == byte \div 16

RECURSIVE Join(_)
Join(cells) == IF cells = <<>> THEN <<>> ELSE Head(cells) \o Join(Tail(cells))

Range(s) == {s[i] : i \in 1 .. Len(s)}


(* --------------------------- compute_shard ----------------------------- *)
\* compute_shard that forgets the remainder in the ranks past it
compute_shard_without_remainder(key_len, compute_node_len, rank) ==
    LET q == key_len \div compute_node_len
        r == key_len % compute_node_len
    IN  IF rank + 1 <= r
        THEN <<rank * (q + 1), (rank + 1) * (q + 1) - 1>>
        ELSE <<rank * q, (rank + 1) * q - 1>>

\* compute_shard of the Copier worker: the inclusive range <<left, right>> of
\* shard `rank` among `compute_node_len` shards of a dump of `key_len` bytes.
\* int(key_len / compute_node_len) is the floor of the quotient for every
\* length a float represents exactly (below 2^53).
compute_shard(key_len, compute_node_len, rank) ==
    LET q == key_len \div compute_node_len
        r == key_len % compute_node_len
    IN  IF rank + 1 <= r
        THEN <<rank * (q + 1), (rank + 1) * (q + 1) - 1>>
        ELSE <<rank * q + r, (rank + 1) * q + r - 1>>

\* dump[left:right+1] when left <= right, bytes() otherwise (0-based indices)
ShardSlice(dump, compute_node_len, rank) ==
    LET lr == compute_shard(Len(dump), compute_node_len, rank)
    IN  IF lr[1] <= lr[2] THEN SubSeq(dump, lr[1] + 1, lr[2] + 1) ELSE <<>>

(* ------------------------------- TRAIN --------------------------------- *)
\* a worker loop `for _ in range(save_count)` that has completed n iterations
LoopPc(n, again) == IF n < save_count THEN again ELSE "done"

\* TRAIN.start on the shard leader of shard rank r (0 <= r < shard_size):
\* starts the Sender and the Copier threads.
TrainStart(r) ==
    /\ t_pc[r] = "new"
    /\ ~is_running[r]
    /\ is_running' = [is_running EXCEPT ![r] = TRUE]
    /\ t_pc' = [t_pc EXCEPT ![r] = "train"]
    /\ s_pc' = [s_pc EXCEPT ![r] = LoopPc(0, "get")]
    /\ c_pc' = [c_pc EXCEPT ![r] = LoopPc(0, "wait")]
    /\ UNCHANGED <<cfgvars, t_saves, copy_completed, is_copy_complete_attr, buffer,
                   c_iter, c_dump, s_iter, s_queue, s_data, channel, mastervars,
                   remote_buffer, eventvars, receivervars, flushervars, fsvars, shardvars, apivars, histvars, bootvars>>

is_copy_complete(r) == copy_completed[r]

\* TRAIN.save -> Copier.request -> wait_copy_complete: the training thread
\* passes the busy-wait once the flag reads true.
TrainSaveWait(r) ==
    /\ t_pc[r] = "train"
    /\ is_running[r]
    /\ t_saves[r] < save_count
    /\ is_copy_complete(r)
    /\ t_pc' = [t_pc EXCEPT ![r] = "request"]
    /\ UNCHANGED <<cfgvars, is_running, t_saves, copiervars, sendervars, channel,
                   mastervars, remote_buffer, eventvars, receivervars, flushervars,
                   fsvars, shardvars, apivars, histvars, bootvars>>

\* Copier.request, the block under __copy_lock: the assignment goes to the
\* attribute __is_copy_complete, not to __copy_completed; the snapshot of the
\* (t_saves+1)-th save is stored in __buffer.
TrainRequestStore(r) ==
    /\ t_pc[r] = "request"
    /\ IF is_copy_complete(r)
       THEN /\ is_copy_complete_attr' = [is_copy_complete_attr EXCEPT ![r] = "False"]
            /\ buffer' = [buffer EXCEPT ![r] = t_saves[r] + 1]
       ELSE UNCHANGED <<is_copy_complete_attr, buffer>>
    /\ t_saves' = [t_saves EXCEPT ![r] = @ + 1]
    /\ t_pc' = [t_pc EXCEPT ![r] = "train"]
    /\ UNCHANGED <<cfgvars, is_running, copy_completed, c_pc, c_iter, c_dump,
                   sendervars, channel, mastervars, remote_buffer, eventvars,
                   receivervars, flushervars, fsvars, shardvars, apivars, histvars, bootvars>>

(* ------------------------------- Copier -------------------------------- *)
\* worker: `while self.__buffer is None` is over, torch.save(self.__buffer, ..)
CopierSerialize(r) ==
    /\ c_pc[r] = "wait"
    /\ buffer[r] # None
    /\ c_dump' = [c_dump EXCEPT ![r] = Serialize(buffer[r])]
    /\ c_pc' = [c_pc EXCEPT ![r] = "clear"]
    /\ UNCHANGED <<cfgvars, trainvars, copy_completed, is_copy_complete_attr, buffer,
                   c_iter, sendervars, channel, mastervars, remote_buffer, eventvars,
                   receivervars, flushervars, fsvars, shardvars, apivars, histvars, bootvars>>

\* worker: self.__buffer = None
CopierClear(r) ==
    /\ c_pc[r] = "clear"
    /\ buffer' = [buffer EXCEPT ![r] = None]
    /\ c_pc' = [c_pc EXCEPT ![r] = "flag"]
    /\ UNCHANGED <<cfgvars, trainvars, copy_completed, is_copy_complete_attr, c_iter,
                   c_dump, sendervars, channel, mastervars, remote_buffer, eventvars,
                   receivervars, flushervars, fsvars, shardvars, apivars, histvars, bootvars>>

\* worker: with self.__copy_lock: self.__copy_completed = True
CopierSetComplete(r) ==
    /\ c_pc[r] = "flag"
    /\ copy_completed' = [copy_completed EXCEPT ![r] = TRUE]
    /\ c_pc' = [c_pc EXCEPT ![r] = "enqueue"]
    /\ UNCHANGED <<cfgvars, trainvars, is_copy_complete_attr, buffer, c_iter, c_dump,
                   sendervars, channel, mastervars, remote_buffer, eventvars,
                   receivervars, flushervars, fsvars, shardvars, apivars, histvars, bootvars>>

\* worker: compute_shard, slice, self.__Sender_enqueue(dump); next iteration
CopierEnqueue(r) ==
    /\ c_pc[r] = "enqueue"
    /\ s_queue' = [s_queue EXCEPT ![r] = Append(@, ShardSlice(c_dump[r], shard_size, r))]
    /\ enqueued' = [enqueued EXCEPT ![r] = Append(@, ShardSlice(c_dump[r], shard_size, r))]
    /\ c_dump' = [c_dump EXCEPT ![r] = <<>>]
    /\ c_iter' = [c_iter EXCEPT ![r] = @ + 1]
    /\ c_pc' = [c_pc EXCEPT ![r] = LoopPc(c_iter[r] + 1, "wait")]
    /\ UNCHANGED <<cfgvars, trainvars, copy_completed, is_copy_complete_attr, buffer,
                   s_pc, s_iter, s_data, channel, mastervars, remote_buffer, eventvars,
                   receivervars, flushervars, fsvars, shardvars, apivars, sent, bootvars>>

(* ------------------------------- Sender -------------------------------- *)
\* a Sender that takes the newest chunk of its queue
SenderGetNewest(r) ==
    /\ s_pc[r] = "get"
    /\ s_queue[r] # <<>>
    /\ s_data' = [s_data EXCEPT ![r] = s_queue[r][Len(s_queue[r])]]
    /\ s_queue' = [s_queue EXCEPT ![r] = SubSeq(@, 1, Len(@) - 1)]
    /\ s_pc' = [s_pc EXCEPT ![r] = "send"]
    /\ UNCHANGED <<cfgvars, trainvars, copiervars, s_iter, channel, mastervars,
                   remote_buffer, eventvars, receivervars, flushervars, fsvars, shardvars,
                   apivars, histvars, bootvars>>

\* worker: data = self.__queue.get()
SenderGet(r) ==
    /\ s_pc[r] = "get"
    /\ s_queue[r] # <<>>
    /\ s_data' = [s_data EXCEPT ![r] = Head(s_queue[r])]
    /\ s_queue' = [s_queue EXCEPT ![r] = Tail(@)]
    /\ s_pc' = [s_pc EXCEPT ![r] = "send"]
    /\ UNCHANGED <<cfgvars, trainvars, copiervars, s_iter, channel, mastervars,
                   remote_buffer, eventvars, receivervars, flushervars, fsvars, shardvars, apivars, histvars, bootvars>>

\* worker: self.__MPI.send(data, dest=size-1, tag=0); the message joins the
\* FIFO of messages from this shard leader to the remote sink.
SenderSend(r) ==
    /\ s_pc[r] = "send"
    /\ channel' = [channel EXCEPT ![r] = Append(@, s_data[r])]
    /\ sent' = [sent EXCEPT ![r] =
                   Append(@, [dest |-> mpi_size - 1, tag |-> 0, data |-> s_data[r]])]
    /\ s_data' = [s_data EXCEPT ![r] = <<>>]
    /\ s_iter' = [s_iter EXCEPT ![r] = @ + 1]
    /\ s_pc' = [s_pc EXCEPT ![r] = LoopPc(s_iter[r] + 1, "get")]
    /\ UNCHANGED <<cfgvars, trainvars, copiervars, s_queue, mastervars, remote_buffer,
                   eventvars, receivervars, flushervars, fsvars, shardvars, apivars, enqueued, bootvars>>


(* --------------------------- REMOTE: Master ---------------------------- *)
\* REMOTE.start up to the Master loop: starts the Flusher and the Receivers
\* (and makes the directory ./<model_name> of FileName when the files go there).
RemoteStart ==
    /\ m_pc = "new"
    /\ ~r_running
    /\ r_running' = TRUE
    /\ f_pc' = LoopPc(0, "get")
    /\ rc_pc' = [r \in Shards |-> LoopPc(0, "wait_start")]
    /\ m_pc' = LoopPc(0, "wait_dirty")
    /\ UNCHANGED <<cfgvars, trainvars, copiervars, sendervars, channel, dirty_bits,
                   remote_buffer_index, m_iter, m_target, m_i, remote_buffer, eventvars,
                   rc_iter, rc_index, rc_data, f_iter, f_queue, f_index, f_data,
                   fsvars, shardvars, apivars, histvars, bootvars>>

\* __wait_dirty_bit that does not test the bit before setting it
MasterSetWithoutWaiting ==
    /\ m_pc = "wait_dirty"
    /\ m_target' = remote_buffer_index
    /\ m_pc' = "set_dirty"
    /\ UNCHANGED <<cfgvars, trainvars, copiervars, sendervars, channel, r_running,
                   dirty_bits, remote_buffer_index, m_iter, m_i, remote_buffer,
                   eventvars, receivervars, flushervars, fsvars, shardvars, apivars, histvars, bootvars>>

\* target_buffer_index = current index; __wait_dirty_bit: the test
\* `self.__dirty_bits[index] == 0` succeeds (read without the lock).
MasterWaitDirtyBit ==
    /\ m_pc = "wait_dirty"
    /\ dirty_bits[remote_buffer_index] = 0
    /\ m_target' = remote_buffer_index
    /\ m_pc' = "set_dirty"
    /\ UNCHANGED <<cfgvars, trainvars, copiervars, sendervars, channel, r_running,
                   dirty_bits, remote_buffer_index, m_iter, m_i, remote_buffer,
                   eventvars, receivervars, flushervars, fsvars, shardvars, apivars, histvars, bootvars>>

\* a Master that moves the current index on as it claims the slot
MasterSetDirtyBitAndAdvance ==
    /\ m_pc = "set_dirty"
    /\ dirty_bits' = [dirty_bits EXCEPT ![m_target] = 1]
    /\ remote_buffer_index' = (remote_buffer_index + 1) % remote_buffer_size
    /\ m_i' = 0
    /\ m_pc' = "request"
    /\ UNCHANGED <<cfgvars, trainvars, copiervars, sendervars, channel, r_running,
                   m_iter, m_target, remote_buffer, eventvars, receivervars, flushervars,
                   fsvars, shardvars, apivars, histvars, bootvars>>

\* __set_dirty_bit(index), under __dirty_bits_lock
MasterSetDirtyBit ==
    /\ m_pc = "set_dirty"
    /\ dirty_bits' = [dirty_bits EXCEPT ![m_target] = 1]
    /\ m_i' = 0
    /\ m_pc' = "request"
    /\ UNCHANGED <<cfgvars, trainvars, copiervars, sendervars, channel, r_running,
                   remote_buffer_index, m_iter, m_target, remote_buffer, eventvars,
                   receivervars, flushervars, fsvars, shardvars, apivars, histvars, bootvars>>

\* for Receiver in Receivers: Receiver.request()   (one Receiver per step)
MasterRequest ==
    /\ m_pc = "request"
    /\ start_event' = [start_event EXCEPT ![m_i] = TRUE]
    /\ IF m_i + 1 < shard_size
       THEN m_i' = m_i + 1 /\ m_pc' = "request"
       ELSE m_i' = 0 /\ m_pc' = "wait"
    /\ UNCHANGED <<cfgvars, trainvars, copiervars, sendervars, channel, r_running,
                   dirty_bits, remote_buffer_index, m_iter, m_target, remote_buffer,
                   end_event, receivervars, flushervars, fsvars, shardvars, apivars, histvars, bootvars>>

\* a Master whose Receiver.wait() returns without the end event
MasterWaitNoBlock ==
    /\ m_pc = "wait"
    /\ m_pc' = "wait_clear"
    /\ UNCHANGED <<cfgvars, trainvars, copiervars, sendervars, channel, r_running,
                   dirty_bits, remote_buffer_index, m_iter, m_target, m_i, remote_buffer,
                   eventvars, receivervars, flushervars, fsvars, shardvars, apivars, histvars, bootvars>>

\* Receiver.wait(): self.__end_event.wait() returns
MasterWait ==
    /\ m_pc = "wait"
    /\ end_event[m_i]
    /\ m_pc' = "wait_clear"
    /\ UNCHANGED <<cfgvars, trainvars, copiervars, sendervars, channel, r_running,
                   dirty_bits, remote_buffer_index, m_iter, m_target, m_i, remote_buffer,
                   eventvars, receivervars, flushervars, fsvars, shardvars, apivars, histvars, bootvars>>

\* the wait loop of the Master leaving after the first Receiver
MasterWaitFirstOnly ==
    /\ m_pc = "wait_clear"
    /\ end_event' = [end_event EXCEPT ![m_i] = FALSE]
    /\ m_i' = 0
    /\ m_pc' = "enqueue"
    /\ UNCHANGED <<cfgvars, trainvars, copiervars, sendervars, channel, r_running,
                   dirty_bits, remote_buffer_index, m_iter, m_target, remote_buffer,
                   start_event, receivervars, flushervars, fsvars, shardvars, apivars, histvars, bootvars>>

\* Receiver.wait(): self.__end_event.clear(); next Receiver of the loop
MasterWaitClear ==
    /\ m_pc = "wait_clear"
    /\ end_event' = [end_event EXCEPT ![m_i] = FALSE]
    /\ IF m_i + 1 < shard_size
       THEN m_i' = m_i + 1 /\ m_pc' = "wait"
       ELSE m_i' = 0 /\ m_pc' = "enqueue"
    /\ UNCHANGED <<cfgvars, trainvars, copiervars, sendervars, channel, r_running,
                   dirty_bits, remote_buffer_index, m_iter, m_target, remote_buffer,
                   start_event, receivervars, flushervars, fsvars, shardvars, apivars, histvars, bootvars>>

\* self.__Flusher.enqueue(target_buffer_index)
MasterEnqueue ==
    /\ m_pc = "enqueue"
    /\ f_queue' = Append(f_queue, m_target)
    /\ m_pc' = "inc"
    /\ UNCHANGED <<cfgvars, trainvars, copiervars, sendervars, channel, r_running,
                   dirty_bits, remote_buffer_index, m_iter, m_target, m_i, remote_buffer,
                   eventvars, receivervars, f_pc, f_iter, f_index, f_data, fsvars,
                   shardvars, apivars, histvars, bootvars>>

\* the Master loop going on without advancing the current index
MasterIncKeepsIndex ==
    /\ m_pc = "inc"
    /\ remote_buffer_index' = remote_buffer_index
    /\ m_iter' = m_iter + 1
    /\ m_pc' = LoopPc(m_iter + 1, "wait_dirty")
    /\ UNCHANGED <<cfgvars, trainvars, copiervars, sendervars, channel, r_running,
                   dirty_bits, m_target, m_i, remote_buffer, eventvars, receivervars,
                   flushervars, fsvars, shardvars, apivars, histvars, bootvars>>

\* __inc_remote_buffer_current_index(); next iteration of the Master loop
MasterInc ==
    /\ m_pc = "inc"
    /\ remote_buffer_index' = (remote_buffer_index + 1) % remote_buffer_size
    /\ m_iter' = m_iter + 1
    /\ m_pc' = LoopPc(m_iter + 1, "wait_dirty")
    /\ UNCHANGED <<cfgvars, trainvars, copiervars, sendervars, channel, r_running,
                   dirty_bits, m_target, m_i, remote_buffer, eventvars, receivervars,
                   flushervars, fsvars, shardvars, apivars, histvars, bootvars>>

(* -------------------------- REMOTE: Receiver --------------------------- *)
\* self.__start_event.wait() returns
ReceiverWaitStart(r) ==
    /\ rc_pc[r] = "wait_start"
    /\ start_event[r]
    /\ rc_pc' = [rc_pc EXCEPT ![r] = "clear_start"]
    /\ UNCHANGED <<cfgvars, trainvars, copiervars, sendervars, channel, mastervars,
                   remote_buffer, eventvars, rc_iter, rc_index, rc_data, flushervars,
                   fsvars, shardvars, apivars, histvars, bootvars>>

\* a Receiver that leaves its start event set after waking up
ReceiverKeepsStart(r) ==
    /\ rc_pc[r] = "clear_start"
    /\ rc_pc' = [rc_pc EXCEPT ![r] = "read_index"]
    /\ UNCHANGED <<cfgvars, trainvars, copiervars, sendervars, channel, mastervars,
                   remote_buffer, eventvars, rc_iter, rc_index, rc_data, flushervars,
                   fsvars, shardvars, apivars, histvars, bootvars>>

\* self.__start_event.clear()
ReceiverClearStart(r) ==
    /\ rc_pc[r] = "clear_start"
    /\ start_event' = [start_event EXCEPT ![r] = FALSE]
    /\ rc_pc' = [rc_pc EXCEPT ![r] = "read_index"]
    /\ UNCHANGED <<cfgvars, trainvars, copiervars, sendervars, channel, mastervars,
                   remote_buffer, end_event, rc_iter, rc_index, rc_data, flushervars,
                   fsvars, shardvars, apivars, histvars, bootvars>>

\* remote_buffer_index = self.__get_remote_buffer_current_index()
ReceiverReadIndex(r) ==
    /\ rc_pc[r] = "read_index"
    /\ rc_index' = [rc_index EXCEPT ![r] = remote_buffer_index]
    /\ rc_pc' = [rc_pc EXCEPT ![r] = "recv"]
    /\ UNCHANGED <<cfgvars, trainvars, copiervars, sendervars, channel, mastervars,
                   remote_buffer, eventvars, rc_iter, rc_data, flushervars, fsvars,
                   shardvars, apivars, histvars, bootvars>>

\* received_data = MPI.recv(source=sharding_rank_list[rank], tag=0): blocks
\* until the oldest message from that shard leader is there.
ReceiverRecv(r) ==
    /\ rc_pc[r] = "recv"
    /\ channel[r] # <<>>
    /\ rc_data' = [rc_data EXCEPT ![r] = Head(channel[r])]
    /\ channel' = [channel EXCEPT ![r] = Tail(@)]
    /\ rc_pc' = [rc_pc EXCEPT ![r] = "store"]
    /\ UNCHANGED <<cfgvars, trainvars, copiervars, sendervars, mastervars, remote_buffer,
                   eventvars, rc_iter, rc_index, flushervars, fsvars, shardvars, apivars, histvars, bootvars>>

\* self.__remote_buffer[remote_buffer_index][self.__rank] = received_data
ReceiverStore(r) ==
    /\ rc_pc[r] = "store"
    /\ remote_buffer' = [remote_buffer EXCEPT ![rc_index[r]][r] = rc_data[r]]
    /\ rc_data' = [rc_data EXCEPT ![r] = <<>>]
    /\ rc_pc' = [rc_pc EXCEPT ![r] = "set_end"]
    /\ UNCHANGED <<cfgvars, trainvars, copiervars, sendervars, channel, mastervars,
                   eventvars, rc_iter, rc_index, flushervars, fsvars, shardvars, apivars, histvars, bootvars>>

\* a Receiver that goes to its next iteration without setting the end event
ReceiverForgetsEnd(r) ==
    /\ rc_pc[r] = "set_end"
    /\ rc_iter' = [rc_iter EXCEPT ![r] = @ + 1]
    /\ rc_pc' = [rc_pc EXCEPT ![r] = LoopPc(rc_iter[r] + 1, "wait_start")]
    /\ UNCHANGED <<cfgvars, trainvars, copiervars, sendervars, channel, mastervars,
                   remote_buffer, eventvars, rc_index, rc_data, flushervars, fsvars,
                   shardvars, apivars, histvars, bootvars>>

\* self.__end_event.set(); next iteration
ReceiverSetEnd(r) ==
    /\ rc_pc[r] = "set_end"
    /\ end_event' = [end_event EXCEPT ![r] = TRUE]
    /\ rc_iter' = [rc_iter EXCEPT ![r] = @ + 1]
    /\ rc_pc' = [rc_pc EXCEPT ![r] = LoopPc(rc_iter[r] + 1, "wait_start")]
    /\ UNCHANGED <<cfgvars, trainvars, copiervars, sendervars, channel, mastervars,
                   remote_buffer, start_event, rc_index, rc_data, flushervars, fsvars,
                   shardvars, apivars, histvars, bootvars>>


(* --------------------------- REMOTE: Flusher --------------------------- *)
\* datetime.now().strftime("%Y-%m-%d-%H%M%S"): the clock at a resolution of
\* one second; t counts the seconds since the node started.
Strftime(t) == "T" \o ToString(t)

\* __get_file_name_and_path, at second t of the clock
FileName(t) ==
    LET fileName0 == "./" \o ModelName
        fileName1 == IF file_save_in_dictionary
                     THEN "./" \o ModelName \o "/" \o fileName0
                     ELSE fileName0
        fileName2 == IF file_name_include_datetime
                     THEN fileName1 \o "_" \o Strftime(t)
                     ELSE fileName1
    IN  fileName2 \o ".pt.tar"

\* a Flusher that clears the dirty bit as soon as it has popped the index
FlusherGetAndClear ==
    /\ f_pc = "get"
    /\ f_queue # <<>>
    /\ f_index' = Head(f_queue)
    /\ f_queue' = Tail(f_queue)
    /\ dirty_bits' = [dirty_bits EXCEPT ![Head(f_queue)] = 0]
    /\ f_pc' = "join"
    /\ UNCHANGED <<cfgvars, trainvars, copiervars, sendervars, channel, r_running,
                   remote_buffer_index, m_pc, m_iter, m_target, m_i,
                   remote_buffer, eventvars, receivervars, f_iter, f_data, fsvars,
                   shardvars, apivars, histvars, bootvars>>

\* remote_buffer_index = self.__queue.get()
FlusherGet ==
    /\ f_pc = "get"
    /\ f_queue # <<>>
    /\ f_index' = Head(f_queue)
    /\ f_queue' = Tail(f_queue)
    /\ f_pc' = "join"
    /\ UNCHANGED <<cfgvars, trainvars, copiervars, sendervars, channel, mastervars,
                   remote_buffer, eventvars, receivervars, f_iter, f_data, fsvars,
                   shardvars, apivars, histvars, bootvars>>

\* entire_recv_data = b''.join(self.__remote_buffer[remote_buffer_index]);
\* joining a cell that still holds the integer of __init__ raises TypeError
\* and ends the thread.
FlusherJoin ==
    /\ f_pc = "join"
    /\ LET cells == [i \in 1 .. shard_size |-> remote_buffer[f_index][i - 1]]
       IN  IF Placeholder \in Range(cells)
           THEN f_pc' = "error" /\ UNCHANGED f_data
           ELSE f_pc' = "clear_dirty" /\ f_data' = Join(cells)
    /\ UNCHANGED <<cfgvars, trainvars, copiervars, sendervars, channel, mastervars,
                   remote_buffer, eventvars, receivervars, f_iter, f_queue, f_index,
                   fsvars, shardvars, apivars, histvars, bootvars>>

\* a Flusher that resets the whole ring when it releases its slot
FlusherClearAllDirtyBits ==
    /\ f_pc = "clear_dirty"
    /\ dirty_bits' = [i \in Slots |-> 0]
    /\ f_pc' = "write"
    /\ UNCHANGED <<cfgvars, trainvars, copiervars, sendervars, channel, r_running,
                   remote_buffer_index, m_pc, m_iter, m_target, m_i, remote_buffer,
                   eventvars, receivervars, f_iter, f_queue, f_index, f_data, fsvars,
                   shardvars, apivars, histvars, bootvars>>

\* self.__clear_dirty_bit(remote_buffer_index), under __dirty_bits_lock
FlusherClearDirtyBit ==
    /\ f_pc = "clear_dirty"
    /\ dirty_bits' = [dirty_bits EXCEPT ![f_index] = 0]
    /\ f_pc' = "write"
    /\ UNCHANGED <<cfgvars, trainvars, copiervars, sendervars, channel, r_running,
                   remote_buffer_index, m_pc, m_iter, m_target, m_i, remote_buffer,
                   eventvars, receivervars, f_iter, f_queue, f_index, f_data, fsvars,
                   shardvars, apivars, histvars, bootvars>>

\* file_path_name = self.__get_file_name(); open(.., 'wb'), write, flush,
\* fsync, close: the file of that name now holds exactly the joined bytes.
FlusherWrite ==
    /\ f_pc = "write"
    /\ \E t \in clock .. (IF clock < MaxClock THEN clock + 1 ELSE clock) :
          /\ t = clock \/ file_name_include_datetime
          /\ clock' = t
          /\ files' = [n \in DOMAIN files \cup {FileName(t)} |->
                          IF n = FileName(t) THEN f_data ELSE files[n]]
          /\ writes' = Append(writes, [name |-> FileName(t), data |-> f_data])
    /\ f_data' = <<>>
    /\ f_iter' = f_iter + 1
    /\ f_pc' = LoopPc(f_iter + 1, "get")
    /\ UNCHANGED <<cfgvars, trainvars, copiervars, sendervars, channel, mastervars,
                   remote_buffer, eventvars, receivervars, f_queue, f_index, shardvars, apivars, histvars, bootvars>>

(* ---------------------- compute_shard on its own ----------------------- *)
\* the Copier of shard rank cs_rank slices the dump all shard leaders share
ComputeShardStep ==
    /\ cs_rank < cs_size
    /\ cs_out' = Append(cs_out,
                        [range |-> compute_shard(Len(cs_dump), cs_size, cs_rank),
                         chunk |-> ShardSlice(cs_dump, cs_size, cs_rank)])
    /\ cs_rank' = cs_rank + 1
    /\ UNCHANGED <<cfgvars, trainvars, copiervars, sendervars, channel, mastervars,
                   remote_buffer, eventvars, receivervars, flushervars, fsvars,
                   cs_dump, cs_size, bootvars, apivars, histvars>>

(* -------------------- the process of the remote sink ------------------- *)
\* remote_node.start() has returned in init_ACUTE: sys.exit() raises
\* SystemExit in the main thread and the interpreter starts to shut down
RemoteSysExit ==
    /\ m_pc = "done"
    /\ r_process = "running"
    /\ r_process' = "exiting"
    /\ UNCHANGED <<cfgvars, trainvars, copiervars, sendervars, channel, mastervars,
                   remote_buffer, eventvars, receivervars, flushervars, fsvars, shardvars,
                   bootvars, othervars, r_call, histvars>>

\* a sink whose worker threads are daemon threads: the process ends with its
\* main thread
RemoteProcessEndDaemon ==
    /\ r_process = "exiting"
    /\ r_process' = "terminated"
    /\ UNCHANGED <<cfgvars, trainvars, copiervars, sendervars, channel, mastervars,
                   remote_buffer, eventvars, receivervars, flushervars, fsvars, shardvars,
                   bootvars, othervars, r_call, histvars>>

\* the Flusher and the Receivers are threading.Thread objects made without
\* daemon=True: the interpreter ends the process once each of them has
\* returned from its method (or died of an exception)
RemoteProcessEnd ==
    /\ r_process = "exiting"
    /\ f_pc \in {"done", "error"}
    /\ \A r \in Shards : rc_pc[r] = "done"
    /\ r_process' = "terminated"
    /\ UNCHANGED <<cfgvars, trainvars, copiervars, sendervars, channel, mastervars,
                   remote_buffer, eventvars, receivervars, flushervars, fsvars, shardvars,
                   bootvars, othervars, r_call, histvars>>

SinkExitNext == RemoteSysExit \/ RemoteProcessEnd

(* ------------------ calls that break the node protocol ----------------- *)
\* TRAIN.save without its assert, on a node that has not been started: the
\* snapshot goes to Copier.request
TrainSaveUnchecked(r) ==
    /\ t_pc[r] = "new"
    /\ ~is_running[r]
    /\ buffer' = [buffer EXCEPT ![r] = t_saves[r] + 1]
    /\ t_pc' = [t_pc EXCEPT ![r] = "save_raised"]
    /\ UNCHANGED <<cfgvars, is_running, t_saves, copy_completed, is_copy_complete_attr,
                   c_pc, c_iter, c_dump, sendervars, channel, mastervars, remote_buffer,
                   eventvars, receivervars, flushervars, fsvars, shardvars, bootvars,
                   apivars, histvars>>

\* TRAIN.save on a node that has not been started: `assert self.__is_running`
\* fails and AssertionError reaches the caller
TrainSaveNotRunning(r) ==
    /\ t_pc[r] = "new"
    /\ ~is_running[r]
    /\ t_pc' = [t_pc EXCEPT ![r] = "save_raised"]
    /\ UNCHANGED <<cfgvars, is_running, t_saves, copiervars, sendervars, channel,
                   mastervars, remote_buffer, eventvars, receivervars, flushervars,
                   fsvars, shardvars, bootvars, apivars, histvars>>

\* TRAIN.start on a started node, between two saves: `assert not
\* self.__is_running` fails and AssertionError reaches the caller
TrainStartRunning(r) ==
    /\ t_pc[r] = "train"
    /\ is_running[r]
    /\ t_pc' = [t_pc EXCEPT ![r] = "start_raised"]
    /\ UNCHANGED <<cfgvars, is_running, t_saves, copiervars, sendervars, channel,
                   mastervars, remote_buffer, eventvars, receivervars, flushervars,
                   fsvars, shardvars, bootvars, apivars, histvars>>

\* the caller is past the AssertionError and where it was before the call
TrainRaised(r) ==
    /\ t_pc[r] \in {"save_raised", "start_raised"}
    /\ t_pc' = [t_pc EXCEPT ![r] = IF t_pc[r] = "save_raised" THEN "new" ELSE "train"]
    /\ UNCHANGED <<cfgvars, is_running, t_saves, copiervars, sendervars, channel,
                   mastervars, remote_buffer, eventvars, receivervars, flushervars,
                   fsvars, shardvars, bootvars, apivars, histvars>>

\* REMOTE.start called once more, by another thread of the sink, on a started
\* node: `assert not self.__is_running` fails
RemoteStartRunning ==
    /\ r_call = ""
    /\ r_running
    /\ r_call' = "start_raised"
    /\ UNCHANGED <<cfgvars, trainvars, copiervars, sendervars, channel, mastervars,
                   remote_buffer, eventvars, receivervars, flushervars, fsvars, shardvars,
                   bootvars, othervars, r_process, histvars>>

\* that caller is past the AssertionError
RemoteRaised ==
    /\ r_call = "start_raised"
    /\ r_call' = ""
    /\ UNCHANGED <<cfgvars, trainvars, copiervars, sendervars, channel, mastervars,
                   remote_buffer, eventvars, receivervars, flushervars, fsvars, shardvars,
                   bootvars, othervars, r_process, histvars>>

MisuseNext ==
    \/ \E r \in Shards :
          \/ TrainSaveNotRunning(r)
          \/ TrainStartRunning(r)
          \/ TrainRaised(r)
    \/ RemoteStartRunning
    \/ RemoteRaised

(* ------------------- TRAIN nodes that hold no shard -------------------- *)
Others == DOMAIN o_shard_rank

\* TRAIN.start on a node whose shard rank is outside 0 .. shard_size-1: the
\* node is running, the Sender and the Copier are not started
OtherStart(o) ==
    /\ o_pc[o] = "new"
    /\ ~o_running[o]
    /\ o_running' = [o_running EXCEPT ![o] = TRUE]
    /\ o_threads' = [o_threads EXCEPT ![o] =
                        IF 0 <= o_shard_rank[o] /\ o_shard_rank[o] < shard_size
                        THEN 2 ELSE 0]
    /\ o_pc' = [o_pc EXCEPT ![o] = "train"]
    /\ UNCHANGED <<cfgvars, trainvars, copiervars, sendervars, channel, mastervars,
                   remote_buffer, eventvars, receivervars, flushervars, fsvars, shardvars,
                   bootvars, histvars, o_shard_rank, o_saves, o_buffer, o_copy_completed,
                   o_attr, o_queue, r_call, r_process>>

\* TRAIN.save whose Copier.request sets the flag it waits on to False
OtherSaveClearsFlag(o) ==
    /\ o_pc[o] = "train"
    /\ o_running[o]
    /\ o_saves[o] < save_count
    /\ IF o_shard_rank[o] >= 0
       THEN /\ o_copy_completed[o]
            /\ o_copy_completed' = [o_copy_completed EXCEPT ![o] = FALSE]
            /\ o_buffer' = [o_buffer EXCEPT ![o] = o_saves[o] + 1]
       ELSE UNCHANGED <<o_copy_completed, o_buffer>>
    /\ o_saves' = [o_saves EXCEPT ![o] = @ + 1]
    /\ UNCHANGED <<cfgvars, trainvars, copiervars, sendervars, channel, mastervars,
                   remote_buffer, eventvars, receivervars, flushervars, fsvars, shardvars,
                   bootvars, histvars, o_shard_rank, o_running, o_pc, o_attr,
                   o_threads, o_queue, r_call, r_process>>

\* TRAIN.save that hands the snapshot to the Copier whatever the shard rank
OtherSaveAnyRank(o) ==
    /\ o_pc[o] = "train"
    /\ o_running[o]
    /\ o_saves[o] < save_count
    /\ o_copy_completed[o]
    /\ o_attr' = [o_attr EXCEPT ![o] = "False"]
    /\ o_buffer' = [o_buffer EXCEPT ![o] = o_saves[o] + 1]
    /\ o_saves' = [o_saves EXCEPT ![o] = @ + 1]
    /\ UNCHANGED <<cfgvars, trainvars, copiervars, sendervars, channel, mastervars,
                   remote_buffer, eventvars, receivervars, flushervars, fsvars, shardvars,
                   bootvars, histvars, o_shard_rank, o_running, o_pc, o_copy_completed,
                   o_threads, o_queue, r_call, r_process>>

\* TRAIN.save on such a node, started: with a shard rank below 0 it returns
\* at once; otherwise Copier.request waits for the flag and stores the snapshot
\* of this save in the slot, as it does on a shard leader
OtherSave(o) ==
    /\ o_pc[o] = "train"
    /\ o_running[o]
    /\ o_saves[o] < save_count
    /\ IF o_shard_rank[o] >= 0
       THEN /\ o_copy_completed[o]
            /\ o_attr' = [o_attr EXCEPT ![o] = "False"]
            /\ o_buffer' = [o_buffer EXCEPT ![o] = o_saves[o] + 1]
       ELSE UNCHANGED <<o_attr, o_buffer>>
    /\ o_saves' = [o_saves EXCEPT ![o] = @ + 1]
    /\ UNCHANGED <<cfgvars, trainvars, copiervars, sendervars, channel, mastervars,
                   remote_buffer, eventvars, receivervars, flushervars, fsvars, shardvars,
                   bootvars, histvars, o_shard_rank, o_running, o_pc, o_copy_completed,
                   o_threads, o_queue, r_call, r_process>>

\* the training thread of such a node calls TRAIN.waiting_for_copying()
OtherWaitingForCopying(o) ==
    /\ o_pc[o] = "train"
    /\ o_running[o]
    /\ o_pc' = [o_pc EXCEPT ![o] = "copy_waiting"]
    /\ UNCHANGED <<cfgvars, trainvars, copiervars, sendervars, channel, mastervars,
                   remote_buffer, eventvars, receivervars, flushervars, fsvars, shardvars,
                   bootvars, histvars, o_shard_rank, o_running, o_saves, o_buffer,
                   o_copy_completed, o_attr, o_threads, o_queue, r_call, r_process>>

\* Copier.wait_copy_complete() returns: self.__copy_completed is True, at the
\* first test or at a test of the polling loop
OtherWaitCopyComplete(o) ==
    /\ o_pc[o] = "copy_waiting"
    /\ o_copy_completed[o]
    /\ o_pc' = [o_pc EXCEPT ![o] = "train"]
    /\ UNCHANGED <<cfgvars, trainvars, copiervars, sendervars, channel, mastervars,
                   remote_buffer, eventvars, receivervars, flushervars, fsvars, shardvars,
                   bootvars, histvars, o_shard_rank, o_running, o_saves, o_buffer,
                   o_copy_completed, o_attr, o_threads, o_queue, r_call, r_process>>

OtherNext ==
    \E o \in Others :
        \/ OtherStart(o)
        \/ OtherSave(o)
        \/ OtherWaitingForCopying(o)
        \/ OtherWaitCopyComplete(o)

(* ---------------------- calculate_save_count -------------------------- *)
\* list(range(start, stop, step)) of Python for a step of at least 1
RECURSIVE PyRange(_, _, _)
PyRange(start, stop, step) ==
    IF start >= stop THEN <<>> ELSE <<start>> \o PyRange(start + step, stop, step)

\* calculate_save_count that leaves out a save point equal to the start epoch
calculate_save_count_after_start(start_epoch, epochs, period) ==
    LET save_points == PyRange(1, epochs + 1, period)
    IN  Len(SelectSeq(save_points, LAMBDA point : point > start_epoch))

\* calculate_save_count: the save points 1, 1 + save_period, .. that do not
\* exceed total_epochs, counted from start_epoch on
calculate_save_count(start_epoch, epochs, period) ==
    LET save_points == PyRange(1, epochs + 1, period)
    IN  Len(SelectSeq(save_points, LAMBDA point : point >= start_epoch))

\* init_ACUTE: the local starting_epoch once `if snapshot_path:` is over, for
\* a snapshot file that exists (snapshot['epoch'] is snapshot_epoch)
ResumeEpoch == IF snapshot_path # "" THEN snapshot_epoch + 1 ELSE starting_epoch

\* the world ranks of the job
Ranks == 0 .. (mpi_size - 1)

\* the value sc_out holds for a process that has not computed its save_count
NotComputed == -1

\* one process of the job computes its save_count from the shared arguments
SaveCountStep(p) ==
    /\ sc_out[p] = NotComputed
    /\ sc_out' = [sc_out EXCEPT ![p] =
                     calculate_save_count(ResumeEpoch, total_epochs, save_period)]
    /\ UNCHANGED <<cfgvars, trainvars, copiervars, sendervars, channel, mastervars,
                   remote_buffer, eventvars, receivervars, flushervars, fsvars, shardvars, apivars, histvars,
                   jobvars, argvars, procvars>>

(* ----------------------- init_ACUTE: role election --------------------- *)
\* os.environ["OMPI_COMM_WORLD_LOCAL_RANK"] of world rank p: its position
\* among the processes of its host, in world-rank order
LocalRank(p) == Cardinality({q \in 0 .. (p - 1) : host[q] = host[p]})

\* the value of the all-gather array for a rank that has not contributed yet
NotGathered == -1

\* f"{n}" and int(s) on the integers the environment variables hold
Str(n) == ToString(n)
IntOf(s) == CHOOSE n \in -1 .. mpi_size : Str(n) = s

\* the loop `for i in range(n)` of make_sharding_rank from i on
RECURSIVE ScanLocalRanks(_, _, _)
ScanLocalRanks(localRankList, i, n) ==
    IF i >= n THEN <<>>
    ELSE (IF localRankList[i] = 0 THEN <<i>> ELSE <<>>)
             \o ScanLocalRanks(localRankList, i + 1, n)

\* make_sharding_rank that scans every world rank, the last one included
make_sharding_rank_whole_world(localRankList, size) ==
    ScanLocalRanks(localRankList, 0, size)

\* make_sharding_rank on the gathered array: the scan stops before size-1
make_sharding_rank(localRankList, size) ==
    ScanLocalRanks(localRankList, 0, size - 1)

\* list.index(x) for an x the list holds
ListIndex(list, x) ==
    (CHOOSE i \in 1 .. Len(list) : list[i] = x /\ \A j \in 1 .. (i - 1) : list[j] # x) - 1

\* the variables set_environ leaves in os.environ of world rank p
set_environ(p, list) ==
    [LOCAL_RANK |-> Str(LocalRank(p)),
     RANK |-> Str(p),
     WORLD_SIZE |-> Str(mpi_size - 1),
     SHARD_RANK |-> IF IntOf(Str(LocalRank(p))) = 0
                    THEN Str(ListIndex(list, p))
                    ELSE "-1"]

NoEnviron == [LOCAL_RANK |-> "", RANK |-> "", WORLD_SIZE |-> "", SHARD_RANK |-> ""]

\* init_ACUTE that constructs its node whatever the shard size
ShardSizeUnchecked(list) == Len(list) >= 0

\* the condition of `assert shard_size <= max_shard_size`
ShardSizeAccepted(list) == args_shard_size <= Len(list)

\* every process has contributed its local rank to the all-gather
AllGathered == \A q \in Ranks : gathered[q] # NotGathered

\* an override key that the arguments do not have: ValueError
BootRejectOverride(p) ==
    /\ i_pc[p] = "init"
    /\ ~overrides_valid
    /\ i_pc' = [i_pc EXCEPT ![p] = "failed"]
    /\ i_result' = [i_result EXCEPT ![p] = <<"raise", "ValueError">>]
    /\ UNCHANGED <<cfgvars, trainvars, copiervars, sendervars, channel, mastervars,
                   remote_buffer, eventvars, receivervars, flushervars, fsvars, shardvars, apivars, histvars,
                   jobvars, argvars, gathered, sharding_rank_list, i_save_count, environ,
                   node, node_running, node_threads, sc_out>>

\* a snapshot_path that does not name an existing file: the assert fails
BootRejectSnapshot(p) ==
    /\ i_pc[p] = "init"
    /\ overrides_valid
    /\ snapshot_path = "missing.pt"
    /\ i_pc' = [i_pc EXCEPT ![p] = "failed"]
    /\ i_result' = [i_result EXCEPT ![p] = <<"raise", "AssertionError">>]
    /\ UNCHANGED <<cfgvars, trainvars, copiervars, sendervars, channel, mastervars,
                   remote_buffer, eventvars, receivervars, flushervars, fsvars, shardvars, apivars, histvars,
                   jobvars, argvars, gathered, sharding_rank_list, i_save_count, environ,
                   node, node_running, node_threads, sc_out>>

\* the arguments are read, communicator = MPI(), and make_sharding_rank
\* enters the all-gather with this process's local rank
BootGather(p) ==
    /\ i_pc[p] = "init"
    /\ overrides_valid
    /\ snapshot_path # "missing.pt"
    /\ gathered' = [gathered EXCEPT ![p] = LocalRank(p)]
    /\ i_pc' = [i_pc EXCEPT ![p] = "gather"]
    /\ UNCHANGED <<cfgvars, trainvars, copiervars, sendervars, channel, mastervars,
                   remote_buffer, eventvars, receivervars, flushervars, fsvars, shardvars, apivars, histvars,
                   jobvars, argvars, sharding_rank_list, i_save_count, environ, node,
                   node_running, node_threads, i_result, sc_out>>

\* the all-gather returns, make_sharding_rank builds the list, and
\* `assert shard_size <= max_shard_size` fails
BootRejectShardSize(p) ==
    /\ i_pc[p] = "gather"
    /\ AllGathered
    /\ LET list == make_sharding_rank(gathered, mpi_size)
       IN  /\ ~ShardSizeAccepted(list)
           /\ sharding_rank_list' = [sharding_rank_list EXCEPT ![p] = list]
    /\ i_pc' = [i_pc EXCEPT ![p] = "failed"]
    /\ i_result' = [i_result EXCEPT ![p] = <<"raise", "AssertionError">>]
    /\ UNCHANGED <<cfgvars, trainvars, copiervars, sendervars, channel, mastervars,
                   remote_buffer, eventvars, receivervars, flushervars, fsvars, shardvars, apivars, histvars,
                   jobvars, argvars, gathered, i_save_count, environ, node, node_running,
                   node_threads, sc_out>>

\* init_ACUTE without the branch on communicator.rank: the process of world
\* rank size-1 constructs a TRAIN node and returns like the others
BootRemoteAsTrainer(p) ==
    /\ i_pc[p] = "gather"
    /\ AllGathered
    /\ p = mpi_size - 1
    /\ LET list == make_sharding_rank(gathered, mpi_size)
       IN  /\ ShardSizeAccepted(list)
           /\ sharding_rank_list' = [sharding_rank_list EXCEPT ![p] = list]
    /\ i_save_count' = [i_save_count EXCEPT ![p] =
                           calculate_save_count(ResumeEpoch, total_epochs, save_period)]
    /\ node' = [node EXCEPT ![p] = "TRAIN"]
    /\ node_running' = [node_running EXCEPT ![p] = train_node_auto_start]
    /\ i_pc' = [i_pc EXCEPT ![p] = "returned"]
    /\ i_result' = [i_result EXCEPT ![p] = <<"return", "MPI", "TRAIN", "None">>]
    /\ UNCHANGED <<cfgvars, trainvars, copiervars, sendervars, channel, mastervars,
                   remote_buffer, eventvars, receivervars, flushervars, fsvars, shardvars, apivars, histvars,
                   jobvars, argvars, gathered, environ, node_threads, sc_out>>

\* the process of world rank size-1 passes the assert, computes save_count,
\* constructs the REMOTE node and calls its start(): the Flusher and the
\* shard_size Receivers are started and the process is in the Master loop
BootRemote(p) ==
    /\ i_pc[p] = "gather"
    /\ AllGathered
    /\ p = mpi_size - 1
    /\ LET list == make_sharding_rank(gathered, mpi_size)
       IN  /\ ShardSizeAccepted(list)
           /\ sharding_rank_list' = [sharding_rank_list EXCEPT ![p] = list]
    /\ i_save_count' = [i_save_count EXCEPT ![p] =
                           calculate_save_count(ResumeEpoch, total_epochs, save_period)]
    /\ node' = [node EXCEPT ![p] = "REMOTE"]
    /\ node_running' = [node_running EXCEPT ![p] = TRUE]
    /\ node_threads' = [node_threads EXCEPT ![p] = 1 + args_shard_size]
    /\ i_pc' = [i_pc EXCEPT ![p] = "remote"]
    /\ UNCHANGED <<cfgvars, trainvars, copiervars, sendervars, channel, mastervars,
                   remote_buffer, eventvars, receivervars, flushervars, fsvars, shardvars, apivars, histvars,
                   jobvars, argvars, gathered, environ, i_result, sc_out>>

\* remote_node.start() has returned: sys.exit() raises SystemExit in
\* init_ACUTE, which has no return value for its caller
BootRemoteExit(p) ==
    /\ i_pc[p] = "remote"
    /\ i_pc' = [i_pc EXCEPT ![p] = "exited"]
    /\ i_result' = [i_result EXCEPT ![p] = <<"raise", "SystemExit">>]
    /\ UNCHANGED <<cfgvars, trainvars, copiervars, sendervars, channel, mastervars,
                   remote_buffer, eventvars, receivervars, flushervars, fsvars, shardvars, apivars, histvars,
                   jobvars, argvars, gathered, sharding_rank_list, i_save_count, environ,
                   node, node_running, node_threads, sc_out>>

\* the Sender and the Copier that TRAIN.start starts for a shard rank
TrainThreads(shard_rank) ==
    IF 0 <= shard_rank /\ shard_rank < args_shard_size THEN 2 ELSE 0

\* a process of another world rank passes the assert, computes save_count,
\* sets its environment, constructs the TRAIN node with
\* int(os.environ["SHARD_RANK"]), starts it when train_node_auto_start, and
\* returns (communicator, train_node, None)
BootTrain(p) ==
    /\ i_pc[p] = "gather"
    /\ AllGathered
    /\ p # mpi_size - 1
    /\ LET list == make_sharding_rank(gathered, mpi_size)
           env == set_environ(p, list)
       IN  /\ ShardSizeAccepted(list)
           /\ sharding_rank_list' = [sharding_rank_list EXCEPT ![p] = list]
           /\ environ' = [environ EXCEPT ![p] = env]
           /\ node_threads' = [node_threads EXCEPT ![p] =
                                  IF train_node_auto_start
                                  THEN TrainThreads(IntOf(env.SHARD_RANK))
                                  ELSE 0]
    /\ i_save_count' = [i_save_count EXCEPT ![p] =
                           calculate_save_count(ResumeEpoch, total_epochs, save_period)]
    /\ node' = [node EXCEPT ![p] = "TRAIN"]
    /\ node_running' = [node_running EXCEPT ![p] = train_node_auto_start]
    /\ i_pc' = [i_pc EXCEPT ![p] = "returned"]
    /\ i_result' = [i_result EXCEPT ![p] = <<"return", "MPI", "TRAIN", "None">>]
    /\ UNCHANGED <<cfgvars, trainvars, copiervars, sendervars, channel, mastervars,
                   remote_buffer, eventvars, receivervars, flushervars, fsvars, shardvars, apivars, histvars,
                   jobvars, argvars, gathered, sc_out>>

BootNext ==
    \E p \in Ranks :
        \/ BootRejectOverride(p)
        \/ BootRejectSnapshot(p)
        \/ BootGather(p)
        \/ BootRejectShardSize(p)
        \/ BootRemote(p)
        \/ BootRemoteExit(p)
        \/ BootTrain(p)

(* --------------------------- specifications ---------------------------- *)
\* the nodes as constructed by init_ACUTE for a job of ss shard leaders
InitNodes(sc, ss, bs, dt, dict) ==
    /\ save_count = sc
    /\ shard_size = ss
    /\ remote_buffer_size = bs
    /\ file_name_include_datetime = dt
    /\ file_save_in_dictionary = dict
    /\ is_running = [r \in 0 .. ss - 1 |-> FALSE]
    /\ t_pc = [r \in 0 .. ss - 1 |-> "new"]
    /\ t_saves = [r \in 0 .. ss - 1 |-> 0]
    /\ copy_completed = [r \in 0 .. ss - 1 |-> TRUE]
    /\ is_copy_complete_attr = [r \in 0 .. ss - 1 |-> "unset"]
    /\ buffer = [r \in 0 .. ss - 1 |-> None]
    /\ c_pc = [r \in 0 .. ss - 1 |-> "idle"]
    /\ c_iter = [r \in 0 .. ss - 1 |-> 0]
    /\ c_dump = [r \in 0 .. ss - 1 |-> <<>>]
    /\ s_pc = [r \in 0 .. ss - 1 |-> "idle"]
    /\ s_iter = [r \in 0 .. ss - 1 |-> 0]
    /\ s_queue = [r \in 0 .. ss - 1 |-> <<>>]
    /\ s_data = [r \in 0 .. ss - 1 |-> <<>>]
    /\ channel = [r \in 0 .. ss - 1 |-> <<>>]
    /\ enqueued = [r \in 0 .. ss - 1 |-> <<>>]
    /\ sent = [r \in 0 .. ss - 1 |-> <<>>]
    /\ r_running = FALSE
    /\ dirty_bits = [i \in 0 .. bs - 1 |-> 0]
    /\ remote_buffer = [i \in 0 .. bs - 1 |-> [r \in 0 .. ss - 1 |-> Placeholder]]
    /\ remote_buffer_index = 0
    /\ m_pc = "new"
    /\ m_iter = 0
    /\ m_target = 0
    /\ m_i = 0
    /\ start_event = [r \in 0 .. ss - 1 |-> FALSE]
    /\ end_event = [r \in 0 .. ss - 1 |-> FALSE]
    /\ rc_pc = [r \in 0 .. ss - 1 |-> "idle"]
    /\ rc_iter = [r \in 0 .. ss - 1 |-> 0]
    /\ rc_index = [r \in 0 .. ss - 1 |-> 0]
    /\ rc_data = [r \in 0 .. ss - 1 |-> <<>>]
    /\ f_pc = "idle"
    /\ f_iter = 0
    /\ f_queue = <<>>
    /\ f_index = 0
    /\ f_data = <<>>
    /\ files = [n \in {} |-> <<>>]
    /\ clock = 0
    /\ writes = <<>>

ShardIdle ==
    /\ cs_dump = <<>>
    /\ cs_size = 1
    /\ cs_rank = 1
    /\ cs_out = <<>>

\* the arguments of init_ACUTE and its processes, none of them past its entry
InitProcesses(pc) ==
    /\ i_pc = [p \in Ranks |-> pc]
    /\ gathered = [p \in Ranks |-> NotGathered]
    /\ sharding_rank_list = [p \in Ranks |-> None]
    /\ i_save_count = [p \in Ranks |-> NotComputed]
    /\ environ = [p \in Ranks |-> NoEnviron]
    /\ node = [p \in Ranks |-> "None"]
    /\ node_running = [p \in Ranks |-> FALSE]
    /\ node_threads = [p \in Ranks |-> 0]
    /\ i_result = [p \in Ranks |-> <<>>]

\* no TRAIN node without a shard, no second caller of REMOTE.start, the
\* process of the remote sink alive
ApiIdle ==
    /\ o_shard_rank = [o \in {} |-> 0]
    /\ o_running = [o \in {} |-> FALSE]
    /\ o_pc = [o \in {} |-> "new"]
    /\ o_saves = [o \in {} |-> 0]
    /\ o_buffer = [o \in {} |-> None]
    /\ o_copy_completed = [o \in {} |-> TRUE]
    /\ o_attr = [o \in {} |-> "unset"]
    /\ o_threads = [o \in {} |-> 0]
    /\ o_queue = [o \in {} |-> <<>>]
    /\ r_call = ""
    /\ r_process = "running"

\* a job of shard_size shard leaders, one process to a host, and the remote
\* sink, whose init_ACUTE is not followed step by step: the nodes exist
BootIdle ==
    /\ mpi_size = shard_size + 1
    /\ host = [p \in Ranks |-> p]
    /\ overrides_valid = TRUE
    /\ snapshot_path = ""
    /\ snapshot_epoch = 0
    /\ starting_epoch = 1
    /\ total_epochs = 0
    /\ save_period = 1
    /\ args_shard_size = 1
    /\ train_node_auto_start = TRUE
    /\ InitProcesses("idle")
    /\ sc_out = [p \in Ranks |-> 0]

Init ==
    /\ \E sc \in 0 .. MaxSaveCount, ss \in 1 .. MaxShardSize, bs \in 1 .. MaxBufferSize,
          dt \in BOOLEAN, dict \in BOOLEAN : InitNodes(sc, ss, bs, dt, dict)
    /\ ShardIdle
    /\ ApiIdle
    /\ BootIdle

TrainNext ==
    \E r \in Shards :
        \/ TrainStart(r)
        \/ TrainSaveWait(r)
        \/ TrainRequestStore(r)
        \/ CopierSerialize(r)
        \/ CopierClear(r)
        \/ CopierSetComplete(r)
        \/ CopierEnqueue(r)
        \/ SenderGet(r)
        \/ SenderSend(r)

ReceiverNext(r) ==
    \/ ReceiverWaitStart(r)
    \/ ReceiverClearStart(r)
    \/ ReceiverReadIndex(r)
    \/ ReceiverRecv(r)
    \/ ReceiverStore(r)
    \/ ReceiverSetEnd(r)

MasterNext ==
    \/ RemoteStart
    \/ MasterWaitDirtyBit
    \/ MasterSetDirtyBit
    \/ MasterRequest
    \/ MasterWait
    \/ MasterWaitClear
    \/ MasterEnqueue
    \/ MasterInc

FlusherNext ==
    \/ FlusherGet
    \/ FlusherJoin
    \/ FlusherClearDirtyBit
    \/ FlusherWrite

RemoteNext ==
    \/ MasterNext
    \/ \E r \in Shards : ReceiverNext(r)
    \/ FlusherNext

Next == TrainNext \/ RemoteNext

Spec == Init /\ [][Next]_vars


\* The remote sink on its own.  It starts in the state of Spec in which every
\* shard leader has started, made its save_count saves one Copier cycle at a
\* time, and its Sender has sent every chunk, before REMOTE.start is called
\* (RemoteInitReachable below is a reachable state of Spec).  A Receiver that
\* blocks in MPI.recv on an empty channel is there a Receiver whose recv step
\* is yet to be taken.  Without the trainer threads the sink is explored for
\* one more save than the whole pipeline.
InitRemote ==
    /\ \E sc \in 0 .. MaxRemoteSaveCount, ss \in 1 .. MaxShardSize, bs \in 1 .. MaxBufferSize,
          dt \in BOOLEAN, dict \in BOOLEAN :
          /\ save_count = sc
          /\ shard_size = ss
          /\ remote_buffer_size = bs
          /\ file_name_include_datetime = dt
          /\ file_save_in_dictionary = dict
          /\ is_running = [r \in 0 .. ss - 1 |-> TRUE]
          /\ t_pc = [r \in 0 .. ss - 1 |-> "train"]
          /\ t_saves = [r \in 0 .. ss - 1 |-> sc]
          /\ copy_completed = [r \in 0 .. ss - 1 |-> TRUE]
          /\ is_copy_complete_attr =
                 [r \in 0 .. ss - 1 |-> IF sc > 0 THEN "False" ELSE "unset"]
          /\ buffer = [r \in 0 .. ss - 1 |-> None]
          /\ c_pc = [r \in 0 .. ss - 1 |-> "done"]
          /\ c_iter = [r \in 0 .. ss - 1 |-> sc]
          /\ c_dump = [r \in 0 .. ss - 1 |-> <<>>]
          /\ s_pc = [r \in 0 .. ss - 1 |-> "done"]
          /\ s_iter = [r \in 0 .. ss - 1 |-> sc]
          /\ s_queue = [r \in 0 .. ss - 1 |-> <<>>]
          /\ s_data = [r \in 0 .. ss - 1 |-> <<>>]
          /\ channel = [r \in 0 .. ss - 1 |->
                           [k \in 1 .. sc |-> ShardSlice(Serialize(k), ss, r)]]
          /\ enqueued = [r \in 0 .. ss - 1 |->
                            [k \in 1 .. sc |-> ShardSlice(Serialize(k), ss, r)]]
          /\ sent = [r \in 0 .. ss - 1 |->
                        [k \in 1 .. sc |->
                            [dest |-> ss, tag |-> 0,
                             data |-> ShardSlice(Serialize(k), ss, r)]]]
          /\ r_running = FALSE
          /\ dirty_bits = [i \in 0 .. bs - 1 |-> 0]
          /\ remote_buffer = [i \in 0 .. bs - 1 |-> [r \in 0 .. ss - 1 |-> Placeholder]]
          /\ start_event = [r \in 0 .. ss - 1 |-> FALSE]
          /\ end_event = [r \in 0 .. ss - 1 |-> FALSE]
          /\ rc_pc = [r \in 0 .. ss - 1 |-> "idle"]
          /\ rc_iter = [r \in 0 .. ss - 1 |-> 0]
          /\ rc_index = [r \in 0 .. ss - 1 |-> 0]
          /\ rc_data = [r \in 0 .. ss - 1 |-> <<>>]
    /\ remote_buffer_index = 0
    /\ m_pc = "new"
    /\ m_iter = 0
    /\ m_target = 0
    /\ m_i = 0
    /\ f_pc = "idle"
    /\ f_iter = 0
    /\ f_queue = <<>>
    /\ f_index = 0
    /\ f_data = <<>>
    /\ files = [n \in {} |-> <<>>]
    /\ clock = 0
    /\ writes = <<>>
    /\ ShardIdle
    /\ ApiIdle
    /\ BootIdle

SpecRemote == InitRemote /\ [][RemoteNext]_vars

\* compute_shard on its own: every dump length up to MaxLen (the i-th byte of
\* the dump is i), every shard size up to MaxRanks, the ranks in order.
InitShard ==
    /\ InitNodes(0, 1, 1, FALSE, FALSE)
    /\ \E n \in 0 .. MaxLen : cs_dump = [i \in 1 .. n |-> i]
    /\ cs_size \in 1 .. MaxRanks
    /\ cs_rank = 0
    /\ cs_out = <<>>
    /\ BootIdle
    /\ ApiIdle

SpecShard == InitShard /\ [][ComputeShardStep]_vars

\* The remote sink as init_ACUTE runs it: REMOTE.start, then sys.exit.
SpecSink == InitRemote /\ [][RemoteNext \/ SinkExitNext]_vars

\* The whole pipeline of a job of up to MaxPipeShards shard leaders and as
\* many ring slots, for up to MaxSaveCount saves.
InitPipe ==
    /\ \E sc \in 0 .. MaxSaveCount, ss \in 1 .. MaxPipeShards :
          InitNodes(sc, ss, ss, FALSE, FALSE)
    /\ ShardIdle
    /\ ApiIdle
    /\ BootIdle

SpecPipe == InitPipe /\ [][Next]_vars

\* The pipeline with callers that break the protocol of the nodes: up to
\* MaxPipeShards shard leaders and as many ring slots, up to MaxApiSaves saves.
InitApi ==
    /\ \E sc \in 0 .. MaxApiSaves, ss \in 1 .. MaxPipeShards :
          InitNodes(sc, ss, ss, FALSE, FALSE)
    /\ ShardIdle
    /\ ApiIdle
    /\ BootIdle

SpecApi == InitApi /\ [][Next \/ MisuseNext]_vars

\* The TRAIN nodes of a job that hold no shard, up to MaxOthers of them, not
\* started yet: the trainers whose local rank is not 0 (shard rank -1) and the
\* leaders past the shard_size (shard rank shard_size).
InitOthers ==
    /\ \E sc \in 0 .. MaxSaveCount, ss \in 1 .. MaxShardSize, bs \in 1 .. MaxBufferSize :
          InitNodes(sc, ss, bs, FALSE, FALSE)
    /\ ShardIdle
    /\ BootIdle
    /\ \E n \in 1 .. MaxOthers :
          /\ o_shard_rank \in [0 .. (n - 1) -> {-1, shard_size}]
          /\ o_running = [o \in 0 .. (n - 1) |-> FALSE]
          /\ o_pc = [o \in 0 .. (n - 1) |-> "new"]
          /\ o_saves = [o \in 0 .. (n - 1) |-> 0]
          /\ o_buffer = [o \in 0 .. (n - 1) |-> None]
          /\ o_copy_completed = [o \in 0 .. (n - 1) |-> TRUE]
          /\ o_attr = [o \in 0 .. (n - 1) |-> "unset"]
          /\ o_threads = [o \in 0 .. (n - 1) |-> 0]
          /\ o_queue = [o \in 0 .. (n - 1) |-> <<>>]
    /\ r_call = ""
    /\ r_process = "running"

SpecOthers == InitOthers /\ [][OtherNext]_vars

\* calculate_save_count on its own: every start epoch and total up to
\* MaxEpochs, every period up to MaxPeriod, without a snapshot to resume from
\* and with one of every epoch; MaxWorldSize processes compute their count.
InitSaveCount ==
    /\ InitNodes(0, 1, 1, FALSE, FALSE)
    /\ ShardIdle
    /\ ApiIdle
    /\ mpi_size = MaxWorldSize
    /\ host = [p \in Ranks |-> 0]
    /\ overrides_valid = TRUE
    /\ \/ snapshot_path = "" /\ snapshot_epoch = 0
       \/ snapshot_path = "snapshot.pt" /\ snapshot_epoch \in 0 .. MaxEpochs
    /\ starting_epoch \in 0 .. MaxEpochs
    /\ total_epochs \in 0 .. MaxEpochs
    /\ save_period \in 1 .. MaxPeriod
    /\ args_shard_size = 1
    /\ train_node_auto_start = TRUE
    /\ InitProcesses("idle")
    /\ sc_out = [p \in Ranks |-> NotComputed]

SpecSaveCount == InitSaveCount /\ [][\E p \in Ranks : SaveCountStep(p)]_vars

\* init_ACUTE in every process of a job: every world size up to MaxWorldSize,
\* every placement of the world ranks on MaxHosts hosts, valid and invalid
\* overrides, no snapshot path, a path without a file and a path with one,
\* every shard_size up to MaxShardSize, with and without auto start.
InitBoot ==
    /\ InitNodes(0, 1, 1, FALSE, FALSE)
    /\ ShardIdle
    /\ ApiIdle
    /\ mpi_size \in 1 .. MaxWorldSize
    /\ host \in [Ranks -> 0 .. (MaxHosts - 1)]
    /\ overrides_valid \in BOOLEAN
    /\ snapshot_path \in {"", "missing.pt", "snapshot.pt"}
    /\ snapshot_epoch = MaxEpochs \div 2
    /\ starting_epoch = 1
    /\ total_epochs = MaxEpochs
    /\ save_period = MaxPeriod
    /\ args_shard_size \in 1 .. MaxShardSize
    /\ train_node_auto_start \in BOOLEAN
    /\ InitProcesses("init")
    /\ sc_out = [p \in Ranks |-> 0]

SpecBoot == InitBoot /\ [][BootNext]_vars


\* the initial state of SpecRemote, as a state of Spec
RemoteInitReachable ==
    /\ save_count = MaxSaveCount
    /\ shard_size = MaxShardSize
    /\ m_pc = "new"
    /\ \A r \in Shards :
          /\ s_pc[r] = "done"
          /\ c_pc[r] = "done"
          /\ t_saves[r] = save_count
          /\ channel[r] = [k \in 1 .. save_count |-> ShardSlice(Serialize(k), shard_size, r)]

(* ------------------------------ claims --------------------------------- *)

\* C1 - end-to-end round trip: every shard leader passes snapshot k as its
\* k-th save, so the bytes of the k-th file write are the serialized snapshot
\* k, whole and in shard-rank order.
C1_RoundTrip ==
    \A k \in 1 .. Len(writes) : writes[k].data = Serialize(k)

\* C2 - at most one outstanding snapshot: request() stores a snapshot only
\* into an empty handoff slot, and what the worker serializes in its k-th
\* iteration (and then slices for the Sender) is the k-th snapshot requested.
C2_OneOutstanding ==
    \A r \in Shards :
        /\ t_pc[r] = "request" => buffer[r] = None
        /\ c_pc[r] \in {"clear", "flag", "enqueue"} => c_dump[r] = Serialize(c_iter[r] + 1)

\* C3 - the copy-complete flag is true only when the handoff slot is empty
\* and the worker is not between reading the snapshot and clearing the slot.
C3_CompleteOnlyWhenEmpty ==
    \A r \in Shards :
        is_copy_complete(r) => (buffer[r] = None /\ c_pc[r] # "clear")


\* the half-open range [lo, hi) of shard r: n bytes over S shards
RangeLo(n, S, r) ==
    IF r < n % S THEN r * ((n \div S) + 1) ELSE r * (n \div S) + (n % S)
RangeHi(n, S, r) ==
    IF r < n % S THEN (r + 1) * ((n \div S) + 1) ELSE (r + 1) * (n \div S) + (n % S)

\* C4 - shard partition: the inclusive range compute_shard gives rank r is
\* the half-open range [lo(r), hi(r)); the chunk of rank r is the bytes of
\* that range (none when it is empty); the first range starts at 0, each
\* range starts where the one before ends, and once all S ranks are done the
\* last range ends at n and the chunks in rank order make up the dump.
C4_ShardPartition ==
    LET n == Len(cs_dump)
        lo(i) == cs_out[i].range[1]
        hi(i) == cs_out[i].range[2] + 1
    IN  /\ \A i \in 1 .. Len(cs_out) :
              /\ lo(i) = RangeLo(n, cs_size, i - 1)
              /\ hi(i) = RangeHi(n, cs_size, i - 1)
              /\ 0 <= lo(i) /\ lo(i) <= hi(i) /\ hi(i) <= n
              /\ cs_out[i].chunk = [j \in 1 .. hi(i) - lo(i) |-> cs_dump[lo(i) + j]]
              /\ lo(i) = IF i = 1 THEN 0 ELSE hi(i - 1)
        /\ (Len(cs_out) = cs_size /\ cs_rank = cs_size) =>
              /\ hi(cs_size) = n
              /\ Join([i \in 1 .. cs_size |-> cs_out[i].chunk]) = cs_dump

\* five bytes over two shards: [0,3) and [3,5); two bytes over three shards:
\* the last shard is empty
C4_Witness ==
    \/ /\ Len(cs_dump) = 5 /\ cs_size = 2 /\ cs_rank = 2
       /\ cs_out[1].chunk = <<1, 2, 3>> /\ cs_out[2].chunk = <<4, 5>>
    \/ /\ Len(cs_dump) = 2 /\ cs_size = 3 /\ cs_rank = 3
       /\ cs_out[3].chunk = <<>> /\ cs_out[3].range = <<2, 1>>


\* The threads of a process are scheduled by the operating system and the
\* training thread makes its save_count calls of save(): a step of a thread
\* that stays possible is eventually taken.
TrainerThread(r) == TrainStart(r) \/ TrainSaveWait(r) \/ TrainRequestStore(r)
CopierThread(r) ==
    CopierSerialize(r) \/ CopierClear(r) \/ CopierSetComplete(r) \/ CopierEnqueue(r)
SenderThread(r) == SenderGet(r) \/ SenderSend(r)

Fairness ==
    /\ \A r \in 0 .. MaxShardSize - 1 :
          /\ WF_vars(r \in Shards /\ TrainerThread(r))
          /\ WF_vars(r \in Shards /\ CopierThread(r))
          /\ WF_vars(r \in Shards /\ SenderThread(r))
          /\ WF_vars(r \in Shards /\ ReceiverNext(r))
    /\ WF_vars(MasterNext)
    /\ WF_vars(FlusherNext)

\* one job: the largest number of saves and of shard leaders, plain file name
InitJob ==
    /\ \E bs \in 1 .. MaxBufferSize :
          InitNodes(MaxSaveCount, MaxShardSize, bs, FALSE, FALSE)
    /\ ShardIdle
    /\ ApiIdle
    /\ BootIdle

FairSpec == InitJob /\ [][Next]_vars /\ Fairness

AllWorkersDone ==
    /\ m_pc = "done" /\ m_iter = save_count
    /\ f_pc = "done" /\ f_iter = save_count
    /\ \A r \in Shards :
          /\ c_pc[r] = "done" /\ c_iter[r] = save_count
          /\ s_pc[r] = "done" /\ s_iter[r] = save_count
          /\ rc_pc[r] = "done" /\ rc_iter[r] = save_count

\* C5 - lifecycle finiteness: every shard leader makes its save_count saves,
\* every send is matched and the threads are scheduled fairly, so every
\* Copier, Sender, Receiver, the Flusher and the Master eventually terminate,
\* each after exactly save_count iterations.
C5_LifecycleFinite == <>AllWorkersDone


DirtyCount == Cardinality({i \in Slots : dirty_bits[i] = 1})
AllDirty == \A i \in Slots : dirty_bits[i] = 1

\* the slots the Master has claimed (set the dirty bit of) so far
SlotsClaimed ==
    m_iter + (IF m_pc \in {"request", "wait", "wait_clear", "enqueue", "inc"} THEN 1 ELSE 0)
\* the slots the Flusher has released (cleared the dirty bit of) so far
SlotsReleased == f_iter + (IF f_pc = "write" THEN 1 ELSE 0)

\* C6 - ring discipline: the number of set dirty bits is the number of slots
\* claimed by the Master minus the number released by the Flusher, and lies
\* between 0 and K.
C6_RingDiscipline ==
    /\ DirtyCount = SlotsClaimed - SlotsReleased
    /\ 0 <= DirtyCount
    /\ DirtyCount <= remote_buffer_size

\* the ring has wrapped: a second slot is claimed after a first was released
C6_Witness ==
    /\ SlotsClaimed = 2
    /\ SlotsReleased = 1
    /\ DirtyCount = 1
    /\ remote_buffer_size = 1

\* slot i is being filled: claimed by the Master and not yet handed over
Filling(i) == m_pc \in {"request", "wait", "wait_clear", "enqueue"} /\ m_target = i
\* slot i is handed to the Flusher and not yet concatenated
PendingFlushes(i) ==
    Cardinality({p \in 1 .. Len(f_queue) : f_queue[p] = i})
        + (IF f_pc = "join" /\ f_index = i THEN 1 ELSE 0)
Draining(i) == PendingFlushes(i) > 0

\* C7 - slot ownership: no slot is at once being filled and waiting to be
\* concatenated, a slot waits for at most one concatenation, and a Receiver
\* that is about to receive into or store into slot i does so while the
\* Master holds i claimed (dirty) and i is not handed to the Flusher.
C7_SlotOwnership ==
    \A i \in Slots :
        /\ ~(Filling(i) /\ Draining(i))
        /\ PendingFlushes(i) <= 1
        /\ \A r \in Shards :
              (rc_pc[r] \in {"recv", "store"} /\ rc_index[r] = i) =>
                  (Filling(i) /\ ~Draining(i) /\ dirty_bits[i] = 1)

\* ring depth 1, two shards: a Receiver stores into the slot again after the
\* first cycle was handed to the Flusher
C7_Witness ==
    /\ remote_buffer_size = 1
    /\ shard_size = 2
    /\ m_iter = 1
    /\ rc_pc[1] = "store"
    /\ rc_index[1] = 0

\* C8 - write ordering: every byte of the j-th file write comes from the
\* j-th snapshot requested on the trainers.
C8_WriteOrder ==
    \A j \in 1 .. Len(writes) :
        \A p \in 1 .. Len(writes[j].data) : SnapshotOf(writes[j].data[p]) = j

\* C9 - back-pressure without loss: with more saves than slots, once the
\* Flusher has finished there are exactly save_count files on the remote
\* sink and every snapshot is the content of one of them.
C9_BackPressureNoLoss ==
    (f_pc = "done" /\ save_count > remote_buffer_size) =>
        /\ Cardinality(DOMAIN files) = save_count
        /\ \A k \in 1 .. save_count : \E n \in DOMAIN files : files[n] = Serialize(k)

\* C10 as stated - in every state: if the dirty bit of the current slot is
\* set then every dirty bit is set; the Master is at most K cycles ahead.
C10_CurrentDirtyMeansAllDirty ==
    /\ dirty_bits[remote_buffer_index] = 1 => AllDirty
    /\ SlotsClaimed - SlotsReleased <= remote_buffer_size

\* C10 - while the Master is in its dirty-bit wait (it has advanced to the
\* current slot and not yet claimed it), the dirty bit of the current slot is
\* set exactly when all K dirty bits are set; the Master is never more than K
\* cycles ahead of the Flusher.
C10_BlockedIffAllDirty ==
    /\ m_pc = "wait_dirty" => (dirty_bits[remote_buffer_index] = 1 <=> AllDirty)
    /\ SlotsClaimed - SlotsReleased <= remote_buffer_size

\* the Master stalls: it waits on a current slot that is dirty, in a ring of
\* two slots both dirty
C10_Witness ==
    /\ m_pc = "wait_dirty"
    /\ remote_buffer_size = 2
    /\ dirty_bits[remote_buffer_index] = 1
    /\ AllDirty

\* the start epoch the claim counts from: snapshot.epoch + 1 on a resume
ResumeEpochOfArgs ==
    IF snapshot_path = "" THEN starting_epoch ELSE snapshot_epoch + 1

\* the epochs of {1, 1+P, 1+2P, ..} between the start epoch and total_epochs
SavePoints ==
    {e \in 1 .. total_epochs : (e - 1) % save_period = 0 /\ e >= ResumeEpochOfArgs}

\* C11 - save_count: what every process computes from the arguments is the
\* number of epochs e in {1, 1+P, 1+2P, ..} with E_start <= e <= E_total,
\* where E_start is snapshot.epoch + 1 when a snapshot is resumed and the
\* starting_epoch argument otherwise; all the processes hold the same count.
C11_SaveCount ==
    /\ \A p \in Ranks :
          sc_out[p] # NotComputed => sc_out[p] = Cardinality(SavePoints)
    /\ \A p, q \in Ranks :
          sc_out[p] # NotComputed /\ sc_out[q] # NotComputed => sc_out[p] = sc_out[q]

\* the example of the documentation: total 10, period 2, snapshot of epoch 5
C11_Witness ==
    /\ total_epochs = 10
    /\ save_period = 2
    /\ snapshot_path # ""
    /\ snapshot_epoch = 5
    /\ \A p \in Ranks : sc_out[p] = 2

\* the world ranks that lead a shard: local rank 0, the last world rank aside
Leaders == {q \in 0 .. (mpi_size - 2) : LocalRank(q) = 0}

\* world rank p is past make_sharding_rank
HasList(p) == gathered[p] # NotGathered /\ i_pc[p] # "gather"

\* C12 - shard-leader election: the list make_sharding_rank builds holds, in
\* increasing order, exactly the world ranks below world_size-1 whose local
\* rank is 0; set_environ gives a leader its position in that list as
\* SHARD_RANK (distinct, and 0 .. L-1 together) and every other trainer -1.
C12_ShardLeaders ==
    /\ \A p \in Ranks :
          HasList(p) =>
              LET list == sharding_rank_list[p]
              IN  /\ Range(list) = Leaders
                  /\ \A i, j \in 1 .. Len(list) : i < j => list[i] < list[j]
    /\ \A p \in Ranks :
          i_pc[p] = "returned" =>
              environ[p].SHARD_RANK =
                  IF p \in Leaders
                  THEN Str(Cardinality({q \in Leaders : q < p}))
                  ELSE "-1"
    /\ \A p, q \in Leaders :
          i_pc[p] = "returned" /\ i_pc[q] = "returned" /\ p # q
              => environ[p].SHARD_RANK # environ[q].SHARD_RANK
    /\ (\A p \in Leaders : i_pc[p] = "returned")
          => {IntOf(environ[p].SHARD_RANK) : p \in Leaders}
                 = 0 .. (Cardinality(Leaders) - 1)

\* two leaders and a trainer that leads nothing have their environment set
C12_Witness ==
    /\ Cardinality(Leaders) = 2
    /\ \A p \in 0 .. (mpi_size - 2) : i_pc[p] = "returned"
    /\ \E p \in 0 .. (mpi_size - 2) : environ[p].SHARD_RANK = "-1"
    /\ \E p \in 0 .. (mpi_size - 2) : environ[p].SHARD_RANK = "1"

\* C13 - exactly one remote sink: only the process of world rank
\* world_size-1 constructs and runs a REMOTE node, and it never returns from
\* init_ACUTE; every other process that gets through constructs a TRAIN node,
\* started iff train_node_auto_start, and returns (communicator, train_node,
\* None) with RANK < WORLD_SIZE = world_size-1 in its environment.
C13_OneRemoteSink ==
    \A p \in Ranks :
        /\ node[p] = "REMOTE" => p = mpi_size - 1
        /\ node[p] = "TRAIN" => p # mpi_size - 1
        /\ p = mpi_size - 1 =>
              /\ i_pc[p] # "returned"
              /\ i_result[p] \in {<<>>, <<"raise", "ValueError">>,
                                  <<"raise", "AssertionError">>, <<"raise", "SystemExit">>}
              /\ i_pc[p] \in {"remote", "exited"} => node[p] = "REMOTE" /\ node_running[p]
        /\ (p # mpi_size - 1 /\ i_pc[p] \notin {"init", "gather", "failed"}) =>
              /\ i_pc[p] = "returned"
              /\ node[p] = "TRAIN"
              /\ node_running[p] = train_node_auto_start
              /\ i_result[p] = <<"return", "MPI", "TRAIN", "None">>
              /\ IntOf(environ[p].RANK) < IntOf(environ[p].WORLD_SIZE)
              /\ IntOf(environ[p].WORLD_SIZE) = mpi_size - 1

\* a job of three processes or more is through init_ACUTE, trainers not started
C13_Witness ==
    /\ mpi_size >= 3
    /\ ~train_node_auto_start
    /\ i_pc[mpi_size - 1] = "exited"
    /\ node[mpi_size - 1] = "REMOTE"
    /\ \A p \in 0 .. (mpi_size - 2) : i_pc[p] = "returned" /\ ~node_running[p]

\* the arguments init_ACUTE rejects
Rejected ==
    \/ ~overrides_valid
    \/ snapshot_path = "missing.pt"
    \/ args_shard_size > Cardinality(Leaders)

\* C14 - configuration rejection: with an unknown override key, a snapshot
\* path without a file or a shard_size above the number of shard leaders,
\* init_ACUTE raises in every process, no TRAIN or REMOTE node is constructed
\* and no worker thread is started; it raises for no other arguments.
C14_ConfigurationRejected ==
    \A p \in Ranks :
        /\ Rejected =>
              /\ i_pc[p] \in {"init", "gather", "failed"}
              /\ node[p] = "None"
              /\ ~node_running[p]
              /\ node_threads[p] = 0
        /\ i_pc[p] = "failed" =>
              /\ Rejected
              /\ i_result[p] \in {<<"raise", "ValueError">>, <<"raise", "AssertionError">>}
        /\ (~Rejected /\ i_pc[p] \notin {"init", "gather"}) => node[p] # "None"

\* every process of a job has failed the assert on the shard size
C14_Witness ==
    /\ mpi_size >= 2
    /\ overrides_valid
    /\ snapshot_path = "snapshot.pt"
    /\ \A p \in Ranks :
          /\ i_pc[p] = "failed"
          /\ i_result[p] = <<"raise", "AssertionError">>
          /\ Len(sharding_rank_list[p]) < args_shard_size

\* the worker threads of the TRAIN node of shard rank r started so far
TrainStarted(r) ==
    (IF c_pc[r] # "idle" THEN 1 ELSE 0) + (IF s_pc[r] # "idle" THEN 1 ELSE 0)

\* the worker threads of the REMOTE node started so far
RemoteStarted ==
    (IF f_pc # "idle" THEN 1 ELSE 0) + Cardinality({r \in Shards : rc_pc[r] # "idle"})

\* everything but the position of the caller of TRAIN r
TrainCallFrame(r) ==
    /\ UNCHANGED <<cfgvars, is_running, t_saves, copiervars, sendervars, channel,
                   mastervars, remote_buffer, eventvars, receivervars, flushervars,
                   fsvars, histvars, apivars>>
    /\ \A q \in Shards \ {r} : t_pc'[q] = t_pc[q]

\* C15 - protocol misuse: save() on a TRAIN node that has not been started
\* raises and leaves the Copier's slot as it was; start() on a started TRAIN
\* or REMOTE node raises and starts no thread; a step that raises leaves the
\* state of the node as it was before the call.
C15_ProtocolMisuse ==
    [][/\ \A r \in Shards :
             /\ ~is_running[r] =>
                   /\ buffer'[r] = buffer[r]
                   /\ copy_completed'[r] = copy_completed[r]
                   /\ is_copy_complete_attr'[r] = is_copy_complete_attr[r]
                   /\ t_saves'[r] = t_saves[r]
             /\ is_running[r] => is_running'[r] /\ TrainStarted(r)' = TrainStarted(r)
             /\ (t_pc'[r] = "save_raised" /\ t_pc[r] # "save_raised") =>
                   ~is_running[r] /\ TrainCallFrame(r)
             /\ (t_pc'[r] = "start_raised" /\ t_pc[r] # "start_raised") =>
                   is_running[r] /\ TrainCallFrame(r)
       /\ r_running => r_running' /\ RemoteStarted' = RemoteStarted
       /\ (r_call' = "start_raised" /\ r_call = "") =>
             /\ r_running
             /\ UNCHANGED <<cfgvars, trainvars, copiervars, sendervars, channel,
                            mastervars, remote_buffer, eventvars, receivervars,
                            flushervars, fsvars, histvars, othervars, r_process>>
      ]_vars

\* save() has raised on a TRAIN node that has not been started while a
\* second start() has raised on the running REMOTE node
C15_Witness ==
    /\ r_call = "start_raised"
    /\ r_running
    /\ RemoteStarted = 1 + shard_size
    /\ \E r \in Shards :
          /\ t_pc[r] = "save_raised"
          /\ ~is_running[r]
          /\ buffer[r] = None

\* C16 - non-leader save is a no-op: on a TRAIN node with a shard rank below
\* 0, start() starts no Copier or Sender thread, and save() leaves the
\* Copier's slot and flag and the Sender's queue as they were and puts no
\* message on the way to the remote sink.
C16_NonLeaderNoOp ==
    [][\A o \in Others :
          o_shard_rank[o] < 0 =>
              /\ o_threads'[o] = 0
              /\ o_buffer'[o] = None /\ o_buffer[o] = None
              /\ o_copy_completed'[o] = o_copy_completed[o]
              /\ o_attr'[o] = o_attr[o]
              /\ o_queue'[o] = <<>>
              /\ (o_saves'[o] # o_saves[o] \/ o_running'[o] # o_running[o]) =>
                    UNCHANGED <<channel, sent, enqueued, sendervars, copiervars>>
      ]_vars

\* a started non-leader has made two saves
C16_Witness ==
    \E o \in Others :
        /\ o_shard_rank[o] = -1
        /\ o_running[o]
        /\ o_saves[o] = 2
        /\ o_buffer[o] = None
        /\ o_threads[o] = 0

\* the messages of shard leader r that Receiver r has taken off the channel
Received(r) == rc_iter[r] + (IF rc_pc[r] \in {"store", "set_end"} THEN 1 ELSE 0)

\* the chunks of shard leader r that its Sender has taken off its queue
Dequeued(r) == s_iter[r] + (IF s_pc[r] = "send" THEN 1 ELSE 0)

\* C17 - per-shard FIFO: the Sender of shard leader r sends the chunks in the
\* order they were enqueued, each to world rank world_size-1 with tag 0,
\* none skipped; what Receiver r stores in its k-th iteration is the k-th
\* chunk enqueued to that Sender.
C17_PerShardFifo ==
    \A r \in Shards :
        /\ Len(sent[r]) = s_iter[r]
        /\ Dequeued(r) + Len(s_queue[r]) = Len(enqueued[r])
        /\ \A k \in 1 .. Len(sent[r]) :
              sent[r][k] = [dest |-> mpi_size - 1, tag |-> 0, data |-> enqueued[r][k]]
        /\ s_pc[r] = "send" => s_data[r] = enqueued[r][s_iter[r] + 1]
        /\ \A i \in 1 .. Len(s_queue[r]) : s_queue[r][i] = enqueued[r][Dequeued(r) + i]
        /\ Received(r) + Len(channel[r]) = Len(sent[r])
        /\ \A i \in 1 .. Len(channel[r]) : channel[r][i] = sent[r][Received(r) + i].data
        /\ rc_pc[r] = "store" => rc_data[r] = enqueued[r][rc_iter[r] + 1]
        /\ rc_pc[r] = "set_end" =>
              remote_buffer[rc_index[r]][r] = enqueued[r][rc_iter[r] + 1]

\* a Receiver is about to store, in its second iteration, the second chunk
\* of its shard leader, which differs from the first
C17_Witness ==
    \E r \in Shards :
        /\ rc_pc[r] = "store"
        /\ rc_iter[r] = 1
        /\ Len(enqueued[r]) = 2
        /\ enqueued[r][1] # enqueued[r][2]
        /\ rc_data[r] = enqueued[r][2]

\* C18 - exit of the remote sink: the process of the sink is not over before
\* the Flusher has written the file of every cycle, the last one included,
\* although sys.exit() is reached as soon as the Master has enqueued the last
\* slot index.
C18_SinkExitsAfterLastFlush ==
    /\ r_process # "running" => m_pc = "done" /\ m_iter = save_count
    /\ r_process = "terminated" =>
          /\ f_pc = "done"
          /\ f_iter = save_count
          /\ Len(writes) = save_count
          /\ f_queue = <<>>

\* the process is over after MaxRemoteSaveCount cycles, every file written
C18_Witness ==
    /\ r_process = "terminated"
    /\ save_count = MaxRemoteSaveCount
    /\ Len(writes) = save_count

\* sys.exit() has been reached while the Flusher has the last file to write
C18_ExitBeforeLastFlush ==
    /\ r_process = "exiting"
    /\ save_count > 0
    /\ f_iter = save_count - 1
    /\ f_pc \in {"get", "join", "clear_dirty", "write"}

\* Receiver r has consumed its start event and has not signalled done yet
InCycle(r) == rc_pc[r] \in {"clear_start", "read_index", "recv", "store", "set_end"}

\* Receiver r holds the slot index it has read for this cycle
HasIndex(r) == rc_pc[r] \in {"recv", "store", "set_end"}

\* C19 - current-slot discipline: while a Receiver is between consuming its
\* start event and signalling done, the Master is in the request or wait
\* loops of that cycle and the current index is the one whose dirty bit it
\* set; the index a Receiver reads is that index, and all the Receivers of a
\* cycle store into the same slot.
C19_CurrentSlotDiscipline ==
    /\ \A r \in Shards :
          InCycle(r) =>
              /\ m_pc \in {"request", "wait", "wait_clear"}
              /\ remote_buffer_index = m_target
              /\ dirty_bits[m_target] = 1
              /\ rc_iter[r] = m_iter
    /\ \A r \in Shards : HasIndex(r) => rc_index[r] = m_target
    /\ \A r, q \in Shards : HasIndex(r) /\ HasIndex(q) => rc_index[r] = rc_index[q]
    /\ m_pc \in {"enqueue", "inc"} =>
          \A r \in Shards : ~InCycle(r) /\ rc_index[r] = m_target

\* second cycle on a ring of two slots: two Receivers hold index 1
C19_Witness ==
    /\ remote_buffer_size = 2
    /\ shard_size = 2
    /\ m_iter = 1
    /\ rc_pc[0] = "store"
    /\ rc_pc[1] = "recv"
    /\ rc_index[0] = 1
    /\ rc_index[1] = 1

\* C20 - slot completeness at flush: when the Flusher joins slot i for cycle
\* k, the cell of every shard r holds the k-th message of shard leader r,
\* the one Receiver r took in cycle k: no cell still holds the value of
\* __init__ or the chunk of an earlier lap.
C20_SlotCompleteAtFlush ==
    /\ f_pc # "error"
    /\ f_pc = "join" =>
          \A r \in Shards :
              /\ remote_buffer[f_index][r] # Placeholder
              /\ rc_iter[r] + (IF rc_pc[r] = "set_end" THEN 1 ELSE 0) > f_iter
              /\ remote_buffer[f_index][r] = sent[r][f_iter + 1].data
    /\ f_pc \in {"clear_dirty", "write"} =>
          f_data = Join([i \in 1 .. shard_size |-> sent[i - 1][f_iter + 1].data])

\* the Flusher joins a slot of two cells on its second lap of a ring of one
C20_Witness ==
    /\ remote_buffer_size = 1
    /\ shard_size = 2
    /\ f_pc = "join"
    /\ f_iter = 2
    /\ remote_buffer[0][0] # <<>>
    /\ remote_buffer[0][1] # <<>>

(* ------------------- the Receiver handshake (C21) ---------------------- *)
\* the calls of Receiver.request() the Master has made on Receiver r
Requested(r) ==
    m_iter + (IF \/ m_pc \in {"wait", "wait_clear", "enqueue", "inc"}
                 \/ (m_pc = "request" /\ m_i > r)
              THEN 1 ELSE 0)

\* the done signals of Receiver r the Master has consumed: Receiver.wait()
\* has returned and cleared the end event
DoneConsumed(r) ==
    m_iter + (IF \/ m_pc \in {"enqueue", "inc"}
                 \/ (m_pc \in {"wait", "wait_clear"} /\ m_i > r)
              THEN 1 ELSE 0)

\* the messages Receiver r has taken out of MPI
MpiReceives(r) == Len(sent[r]) - Len(channel[r])

\* C21 - Receiver handshake: when the Master is about to set start_r the
\* Receiver has taken the previous start and the Master has consumed the
\* previous done, so no signal is set on top of one that is still pending; a
\* pending start is the one request not yet taken, a pending done the one
\* receive not yet consumed; every request leads to one MPI receive and one
\* done signal, and a Receiver is inside its loop body (and receives) only
\* for a request the Master made.
C21_ReceiverHandshake ==
    \A r \in Shards :
        /\ (m_pc = "request" /\ m_i <= r) =>
               /\ ~start_event[r]
               /\ ~end_event[r]
               /\ rc_pc[r] = "wait_start"
               /\ rc_iter[r] = m_iter
               /\ DoneConsumed(r) = rc_iter[r]
        /\ rc_pc[r] = "set_end" => ~end_event[r]
        /\ start_event[r] =>
               /\ rc_pc[r] \in {"wait_start", "clear_start"}
               /\ Requested(r) = rc_iter[r] + 1
        /\ end_event[r] => rc_iter[r] = DoneConsumed(r) + 1
        /\ InCycle(r) => Requested(r) = rc_iter[r] + 1
        /\ MpiReceives(r) = Received(r)
        /\ DoneConsumed(r) <= rc_iter[r]
        /\ rc_iter[r] <= Received(r)
        /\ Received(r) <= Requested(r)
        /\ Requested(r) <= DoneConsumed(r) + 1
        /\ m_pc = "done" =>
               /\ Requested(r) = save_count
               /\ MpiReceives(r) = save_count
               /\ rc_iter[r] = save_count
               /\ DoneConsumed(r) = save_count
               /\ ~start_event[r]
               /\ ~end_event[r]

\* the second cycle of two Receivers: Receiver 0 has taken its second request
\* and received, Receiver 1 finished the first cycle and is about to be
\* requested again
C21_Witness ==
    /\ shard_size = 2
    /\ m_iter = 1
    /\ m_pc = "request"
    /\ m_i = 1
    /\ rc_pc[0] = "store"
    /\ rc_iter[1] = 1
    /\ ~start_event[1]

(* ------------- the Flusher between join and write (C22) ---------------- *)
\* the dirty bits cleared so far: the slots the Master claimed that are no
\* longer dirty
BitsCleared == SlotsClaimed - DirtyCount

\* the bytes of cycle k: the k-th message of every shard leader, in shard order
CycleBytes(k) == Join([i \in 1 .. shard_size |-> sent[i - 1][k].data])

\* C22 - in the Flusher iteration of cycle k on slot i: while the cells are
\* joined and until the clear, the dirty bit of slot i is still set and the
\* bit of this iteration is not cleared yet; the copy entire_recv_data is
\* made before the clear; when the write starts the bit of this iteration has
\* been cleared and no byte of cycle k is written yet; and every write holds
\* the bytes of its own cycle, whatever the Receivers stored into the cells of
\* slot i for a later cycle meanwhile.
C22_ClearAfterJoinBeforeWrite ==
    /\ f_pc \in {"join", "clear_dirty"} =>
          /\ dirty_bits[f_index] = 1
          /\ BitsCleared = f_iter
          /\ Len(writes) = f_iter
    /\ f_pc = "clear_dirty" => f_data = CycleBytes(f_iter + 1)
    /\ f_pc = "write" =>
          /\ BitsCleared = f_iter + 1
          /\ Len(writes) = f_iter
          /\ f_data = CycleBytes(f_iter + 1)
    /\ \A k \in 1 .. Len(writes) : writes[k].data = CycleBytes(k)

\* the write of cycle 1 is in progress while the cells of the same slot
\* already hold chunks of cycle 2, different from those of cycle 1
C22_Witness ==
    /\ shard_size = 2
    /\ save_count >= 2
    /\ f_pc = "write"
    /\ f_iter = 0
    /\ remote_buffer[f_index][0] = sent[0][2].data
    /\ remote_buffer[f_index][1] = sent[1][2].data
    /\ sent[0][2].data # sent[0][1].data
    /\ sent[1][2].data # sent[1][1].data

(* ----------------------- the dirty-bit frame (C23) --------------------- *)
\* the step is the Master's __set_dirty_bit
MasterSets == m_pc = "set_dirty" /\ m_pc' = "request"

\* the step is the Flusher's __clear_dirty_bit
FlusherClears == f_pc = "clear_dirty" /\ f_pc' = "write"

\* C23 - dirty-bit frame: a step that turns a bit from 0 to 1 is the Master's
\* set, on the current index, which the Master saw clear in an earlier step
\* of its own; a step that turns a bit from 1 to 0 is the Flusher's clear, on
\* the index it popped; the Master's set always finds its bit 0 and the
\* Flusher's clear always finds its bit 1, each changes exactly that bit, and
\* every other step leaves all bits as they are.
C23_DirtyBitFrame ==
    [][ /\ \A i \in Slots :
              /\ (dirty_bits[i] = 0 /\ dirty_bits'[i] = 1) =>
                     /\ MasterSets
                     /\ i = m_target
                     /\ i = remote_buffer_index
              /\ (dirty_bits[i] = 1 /\ dirty_bits'[i] = 0) =>
                     /\ FlusherClears
                     /\ i = f_index
        /\ MasterSets =>
              /\ dirty_bits[m_target] = 0
              /\ dirty_bits' = [dirty_bits EXCEPT ![m_target] = 1]
        /\ FlusherClears =>
              /\ dirty_bits[f_index] = 1
              /\ dirty_bits' = [dirty_bits EXCEPT ![f_index] = 0]
        /\ (~MasterSets /\ ~FlusherClears) => dirty_bits' = dirty_bits
        /\ DOMAIN dirty_bits' = Slots
      ]_vars

\* on a ring of two slots the Master has tested slot 1 and is about to set
\* its bit while the Flusher is about to clear the bit of slot 0
C23_Witness ==
    /\ remote_buffer_size = 2
    /\ m_pc = "set_dirty"
    /\ m_target = 1
    /\ dirty_bits = [i \in Slots |-> IF i = 0 THEN 1 ELSE 0]
    /\ f_pc = "clear_dirty"
    /\ f_index = 0

(* ------------- one message per shard per cycle (C24) ------------------- *)
\* the snapshots a shard leader can have serialized: those passed to save()
Snapshots == 1 .. save_count

\* cycle k has an empty shard: some shard leader sent a zero-length chunk
HasEmptyChunk(k) == \E r \in Shards : sent[r][k].data = <<>>

\* C24 - one message per shard per cycle, also for empty shards: every shard
\* leader has enqueued one chunk per snapshot it serialized, the chunk being
\* its slice of that snapshot (zero-length when its range is empty); every
\* Receiver took one message for every cycle written; and the file of a
\* cycle with a zero-length chunk equals the serialized snapshot B of a save.
C24_OneMessagePerCycle ==
    /\ \A r \in Shards :
          /\ Len(enqueued[r]) = c_iter[r]
          /\ \A k \in 1 .. Len(enqueued[r]) :
                \E b \in Snapshots : enqueued[r][k] = ShardSlice(Serialize(b), shard_size, r)
    /\ \A k \in 1 .. Len(writes) :
          /\ \A r \in Shards : MpiReceives(r) >= k
          /\ HasEmptyChunk(k) => \E b \in Snapshots : writes[k].data = Serialize(b)

(* ------------------- Sender/Receiver pairing (C25) --------------------- *)
\* the shard rank the TRAIN node of world rank p was constructed with
ShardRankOf(p) == IntOf(environ[p].SHARD_RANK)

\* world rank p returned from init_ACUTE with a started TRAIN node
StartedTrainer(p) == i_pc[p] = "returned" /\ node[p] = "TRAIN" /\ node_running[p]

\* shard leader r will never send again: it has made all its saves, its
\* handoff slot and its Sender queue are empty, its Copier polls the slot and
\* its Sender waits on the queue
NeverSends(r) ==
    /\ is_running[r]
    /\ t_pc[r] = "train"
    /\ t_saves[r] = save_count
    /\ buffer[r] = None
    /\ c_pc[r] = "wait"
    /\ s_queue[r] = <<>>
    /\ s_pc[r] = "get"

\* every thread of the pair of shard r has ended
PairDone(r) == c_pc[r] = "done" /\ s_pc[r] = "done" /\ rc_pc[r] = "done"

\* C25 - Sender/Receiver pairing: a started trainer runs a Copier and a Sender
\* iff its shard rank is in [0,S); then it is the world rank at position
\* shard rank of the sharding rank list, the source Receiver r receives from;
\* the trainers with threads have distinct shard ranks and together all of
\* 0 .. S-1; every message goes to world rank size-1 with tag 0; for every
\* pair whose threads have ended, sent = received = save_count and nothing is
\* left in the channel; and no Receiver waits in MPI.recv for a message that
\* its shard leader will never send.
C25_SenderReceiverPairing ==
    /\ \A p \in Ranks :
          StartedTrainer(p) =>
              /\ node_threads[p] = 2 <=>
                     (0 <= ShardRankOf(p) /\ ShardRankOf(p) < args_shard_size)
              /\ node_threads[p] \in {0, 2}
              /\ node_threads[p] = 2 => sharding_rank_list[p][ShardRankOf(p) + 1] = p
    /\ \A p, q \in Ranks :
          (StartedTrainer(p) /\ StartedTrainer(q) /\ p # q
               /\ node_threads[p] = 2 /\ node_threads[q] = 2)
              => ShardRankOf(p) # ShardRankOf(q)
    /\ (mpi_size >= 2 /\ \A p \in 0 .. (mpi_size - 2) : StartedTrainer(p)) =>
          \A r \in 0 .. (args_shard_size - 1) :
              \E p \in 0 .. (mpi_size - 2) :
                  /\ node_threads[p] = 2
                  /\ ShardRankOf(p) = r
                  /\ (HasList(mpi_size - 1) => sharding_rank_list[mpi_size - 1][r + 1] = p)
    /\ \A r \in Shards :
          /\ \A k \in 1 .. Len(sent[r]) :
                sent[r][k].dest = mpi_size - 1 /\ sent[r][k].tag = 0
          /\ MpiReceives(r) >= 0
          /\ Len(sent[r]) <= save_count
          /\ PairDone(r) =>
                /\ Len(sent[r]) = save_count
                /\ MpiReceives(r) = save_count
                /\ channel[r] = <<>>
          /\ ~(rc_pc[r] = "recv" /\ channel[r] = <<>> /\ NeverSends(r))

(* ---------------------- remote-side progress (C26) --------------------- *)
\* the Master waits on a dirty bit or on a done event, or has ended
MasterBlocked ==
    \/ m_pc = "wait_dirty" /\ dirty_bits[remote_buffer_index] = 1
    \/ m_pc = "wait" /\ ~end_event[m_i]
    \/ m_pc = "done"

\* Receiver r waits on its start event or for a message, or has ended
ReceiverBlocked(r) ==
    \/ rc_pc[r] = "wait_start" /\ ~start_event[r]
    \/ rc_pc[r] = "recv" /\ channel[r] = <<>>
    \/ rc_pc[r] = "done"

\* the Flusher waits on its empty queue, or has ended
FlusherBlocked ==
    \/ f_pc = "get" /\ f_queue = <<>>
    \/ f_pc \in {"done", "error"}

\* C26 - remote-side progress: with save_count chunks delivered by every
\* shard leader, as long as fewer than save_count files are written on the
\* started sink, the Master, a Receiver or the Flusher can take a step: they
\* are never all blocked (Master on a dirty bit or a done event, Receivers on
\* start events or in recv, Flusher on its empty queue) or ended.
C26_RemoteProgress ==
    (r_running /\ Len(writes) < save_count) =>
        ~(MasterBlocked /\ FlusherBlocked /\ \A r \in Shards : ReceiverBlocked(r))

\* on a ring of one slot the Master is blocked on the dirty bit and both
\* Receivers on their start events: only the Flusher, about to clear the bit,
\* can move, and a file is still to be written after this one
C26_Witness ==
    /\ remote_buffer_size = 1
    /\ shard_size = 2
    /\ m_pc = "wait_dirty"
    /\ dirty_bits[remote_buffer_index] = 1
    /\ \A r \in Shards : rc_pc[r] = "wait_start" /\ ~start_event[r]
    /\ f_pc = "clear_dirty"
    /\ Len(writes) + 1 < save_count

(* ------------- a shard leader beyond shard_size (C27) ------------------ *)
\* C27 - on a started trainer whose shard rank is shard_size or more (no
\* Copier or Sender thread runs): the flag the training thread waits on is
\* True in every state, so a waiting_for_copying() that was called can
\* return, and a save() can be made and returns, whatever number of saves
\* came before.
C27_NoWorkerNeverBlocks ==
    \A o \in Others :
        (o_shard_rank[o] >= shard_size /\ o_running[o]) =>
            /\ o_threads[o] = 0
            /\ o_copy_completed[o]
            /\ o_pc[o] = "copy_waiting" => ENABLED OtherWaitCopyComplete(o)
            /\ (o_pc[o] = "train" /\ o_saves[o] < save_count) => ENABLED OtherSave(o)

\* such a trainer waits for the copy after two saves, the snapshot of the
\* second lying in the slot no worker reads
C27_Witness ==
    \E o \in Others :
        /\ o_shard_rank[o] >= shard_size
        /\ o_running[o]
        /\ o_threads[o] = 0
        /\ o_saves[o] = 2
        /\ o_buffer[o] = 2
        /\ o_pc[o] = "copy_waiting"

=============================================================================
